---- MODULE Spec2Model ----
(***************************************************************************)
(* Model of arbstr's per-provider circuit breaker                          *)
(* (src/src/proxy/circuit_breaker.rs): the CircuitBreakerInner state       *)
(* machine, the CircuitBreakerRegistry operations that wrap it in a mutex  *)
(* and a tokio watch channel, and the ProbeGuard RAII type.                *)
(*                                                                         *)
(* One provider's breaker is modelled (the registry keeps independent      *)
(* entries per provider name).  Every registry operation runs under the    *)
(* entry's mutex and is therefore one atomic action; the only suspension   *)
(* point is rx.changed().await inside acquire_permit.                      *)
(***************************************************************************)
EXTENDS Integers, Sequences, FiniteSets, TLC

\* ---- bounds of the model ------------------------------------------------
MaxCallers == 3
MaxLiveCallers == 2
MaxTime == 62
MaxFailures == 4
MaxTrips == 2
MaxCandidates == 3
MaxLatency == 13
MaxRecords == 3
MaxChunk == 3
MaxProviders == 2
MaxPolicies == 2
MaxUuids == 4

\* ---- program constants --------------------------------------------------
FAILURE_THRESHOLD == 3
OPEN_DURATION == 30
MAX_RETRIES == 2
RETRY_TIMEOUT == 30
BUFFER_CAP == 65536
BACKOFF_DURATIONS == <<1, 2, 4>>

Callers == 1..MaxCallers

\* The callers that take steps in the specification with fairness.
LiveCallers == 1..MaxLiveCallers

\* tokio::time::advance(d): the virtual clock moves by d seconds.
AdvanceSteps == {OPEN_DURATION - 1, OPEN_DURATION, OPEN_DURATION + 1}

\* (error_type, message) pairs handed to record_failure by holders of a
\* Normal permit, and to ProbeGuard::failure by the probe holder.
FailureErrors ==
    {[error_type |-> "5xx", message |-> "Internal Server Error"]}
ProbeErrors == {[error_type |-> "5xx", message |-> "Still broken"]}
DroppedError ==
    [error_type |-> "dropped", message |-> "probe dropped without resolution"]

VARIABLES
    inner,        \* Mutex<CircuitBreakerInner> of the provider's entry
    probe_watch,  \* value held by the watch::Sender<ProbeResult>
    rx,           \* per caller: its watch::Receiver ("none", "seen", "changed")
    pc,           \* per caller: position in its request
    error_info,   \* per caller: (reason, trip_count) copied out under the lock
    now,          \* tokio::time::Instant::now(), in seconds
    heard,        \* history, per waiter: the probe results published since
                  \* it subscribed
    awaited       \* history, per waiter: the holders of the Probe permits that
                  \* were unresolved when it subscribed and still are

\* One chat-completion request as chat_completions handles it
\* (src/src/proxy/handlers.rs, src/src/proxy/retry.rs).
VARIABLES
    is_streaming, \* request.stream.unwrap_or(false)
    candidates,   \* the router's ordered candidate list, cheapest first
    rpc,          \* position of the handler and of the future it awaits
    retry,        \* locals of retry_with_fallback / execute_request
    due,          \* instant at which the pending sleep or response completes
    deadline,     \* Instant::now() + RETRY_TIMEOUT of the non-streaming path
    attempts,     \* Arc<Mutex<Vec<AttemptRecord>>> owned by the handler
    retry_result, \* Option of the Result the awaited future returned
    response,     \* Option of the response the handler returns
    log_entry,    \* Option of the RequestLog the handler hands to spawn_log_write
    dispatched    \* history: every upstream dispatch, in order

\* The registry of the server: one breaker per provider.
VARIABLES
    breakers      \* per provider: the CircuitBreakerInner of its entry

\* The other endpoints of the server.
VARIABLES
    health_response  \* Option of the response to a GET /health

\* One upstream SSE byte stream wrapped by wrap_sse_stream
\* (src/src/proxy/stream.rs).
VARIABLES
    sse_source,   \* the bytes the upstream sends, in order
    sse_pos,      \* how many of them it has yielded
    sse_phase,    \* "idle", "streaming", "ended" (None yielded), "dropped"
    observer,     \* the SseObserver owned by the wrapper's closure
    handle,       \* StreamResultHandle: Option<StreamResult>
    forwarded,    \* history: the bytes of the items the wrapper yielded
    last_yield,   \* history: Option of the item the wrapper yielded last
    handle_writes,\* history: how often the handle was written
    discarded     \* history: the safety valve has cleared the buffer

\* The router of the server (src/src/router/selector.rs).
VARIABLES
    providers,    \* Router.providers: the configured providers, in order
    policy_rules, \* Router.policy_rules: the configured policies, in order
    routed        \* history: Option of the call made and what it returned

\* One POST /v1/chat/completions as the stack of create_router sees it
\* (src/src/proxy/server.rs, src/src/proxy/handlers.rs).
VARIABLES
    http_request, \* Option of the request received
    request_id,   \* Option of the RequestId in the request's extensions
    http_response \* Option of the response sent to the client

\* The accounting of the server: the cost of a completed request
\* (src/src/router/selector.rs) and the requests table with the detached
\* tasks that write it (src/src/storage/logging.rs).
VARIABLES
    cost_call,      \* the arguments of one actual_cost_sats call and its result
    requests_table, \* the rows of the requests table, in insertion order
    log_tasks,      \* per detached task: Option of what it captured and its state
    rows_affected   \* Option of the rows_affected() the update task got

gate_vars == <<breakers>>

ledger_vars == <<cost_call, requests_table, log_tasks, rows_affected>>

router_vars == <<providers, policy_rules, routed>>

http_vars == <<http_request, request_id, http_response>>

sse_vars == <<sse_source, sse_pos, sse_phase, observer, handle, forwarded,
              last_yield, handle_writes, discarded>>

side_vars == <<health_response, sse_vars, router_vars, http_vars, ledger_vars>>

breaker_vars == <<inner, probe_watch, rx, pc, error_info, heard, awaited>>

request_vars == <<is_streaming, candidates, rpc, retry, due, deadline,
                  attempts, retry_result, response, log_entry, dispatched>>

vars == <<inner, probe_watch, rx, pc, error_info, now, heard, awaited,
          is_streaming, candidates, rpc, retry, due, deadline,
          attempts, retry_result, response, log_entry, dispatched,
          breakers,
          health_response,
          sse_source, sse_pos, sse_phase, observer, handle, forwarded,
          last_yield, handle_writes, discarded,
          providers, policy_rules, routed,
          http_request, request_id, http_response,
          cost_call, requests_table, log_tasks, rows_affected>>

\* Option<T> is the empty set (None) or a singleton (Some(v)).
None == {}
Some(v) == {v}

\* /health has not been asked.
HealthIdle == health_response = None

\* No stream is wrapped.
SseIdle ==
    /\ sse_source = <<>>
    /\ sse_pos = 0
    /\ sse_phase = "idle"
    /\ observer = None
    /\ handle = None
    /\ forwarded = <<>>
    /\ last_yield = None
    /\ handle_writes = 0
    /\ discarded = FALSE

\* No router is configured and nothing is routed.
RouterIdle ==
    /\ providers = <<>>
    /\ policy_rules = <<>>
    /\ routed = None

\* No POST has arrived.
HttpIdle ==
    /\ http_request = None
    /\ request_id = None
    /\ http_response = None

\* No cost is computed, the table is empty and no task is spawned.
LedgerIdle ==
    /\ cost_call = None
    /\ requests_table = <<>>
    /\ log_tasks = [t \in {"insert", "update"} |-> None]
    /\ rows_affected = None

\* Nothing has been asked of the other endpoints and components.
SideIdle ==
    /\ HealthIdle
    /\ SseIdle
    /\ RouterIdle
    /\ HttpIdle
    /\ LedgerIdle

\* ---- CircuitBreakerInner ------------------------------------------------

CircuitBreakerInner_new ==
    [state |-> "Closed",
     failure_count |-> 0,
     opened_at |-> None,
     last_error |-> None,
     trip_count |-> 0,
     probe_in_flight |-> FALSE]

\* try_acquire_probe(&mut self) -> CheckResult
try_acquire_probe(b) ==
    IF ~b.probe_in_flight
    THEN [inner |-> [b EXCEPT !.probe_in_flight = TRUE], result |-> "ProbePermit"]
    ELSE [inner |-> b, result |-> "WaitForProbe"]

\* check_state with the timeout test written > instead of >=.
check_state_strict(b, t) ==
    CASE b.state = "Closed" -> [inner |-> b, result |-> "Allowed"]
      [] b.state = "Open" ->
            IF \E oa \in b.opened_at : t - oa > OPEN_DURATION
            THEN try_acquire_probe([b EXCEPT !.state = "HalfOpen",
                                             !.probe_in_flight = FALSE])
            ELSE [inner |-> b, result |-> "Rejected"]
      [] b.state = "HalfOpen" -> try_acquire_probe(b)

\* check_state(&mut self) -> CheckResult, evaluated at instant t
check_state(b, t) ==
    CASE b.state = "Closed" -> [inner |-> b, result |-> "Allowed"]
      [] b.state = "Open" ->
            IF \E oa \in b.opened_at : t - oa >= OPEN_DURATION
            THEN try_acquire_probe([b EXCEPT !.state = "HalfOpen",
                                             !.probe_in_flight = FALSE])
            ELSE [inner |-> b, result |-> "Rejected"]
      [] b.state = "HalfOpen" -> try_acquire_probe(b)

\* record_failure that trips without stamping opened_at.
record_failure_no_timestamp(b, e, t) ==
    LET b1 == [b EXCEPT !.failure_count = @ + 1,
                        !.last_error = Some(e)]
    IN  IF b1.failure_count >= FAILURE_THRESHOLD
        THEN [b1 EXCEPT !.state = "Open",
                        !.trip_count = @ + 1]
        ELSE b1

\* record_failure with the threshold test written > instead of >=.
record_failure_late_trip(b, e, t) ==
    LET b1 == [b EXCEPT !.failure_count = @ + 1,
                        !.last_error = Some(e)]
    IN  IF b1.failure_count > FAILURE_THRESHOLD
        THEN [b1 EXCEPT !.state = "Open",
                        !.opened_at = Some(t),
                        !.trip_count = @ + 1]
        ELSE b1

\* record_failure(&mut self, provider_name, error_type, message) at instant t
record_failure(b, e, t) ==
    LET b1 == [b EXCEPT !.failure_count = @ + 1,
                        !.last_error = Some(e)]
    IN  IF b1.failure_count >= FAILURE_THRESHOLD
        THEN [b1 EXCEPT !.state = "Open",
                        !.opened_at = Some(t),
                        !.trip_count = @ + 1]
        ELSE b1

\* record_success(&mut self, provider_name)
record_success(b) == [b EXCEPT !.failure_count = 0]

\* record_probe_success that forgets to zero the failure counter.
record_probe_success_keep_count(b) ==
    [b EXCEPT !.state = "Closed",
              !.probe_in_flight = FALSE]

\* record_probe_success(&mut self, provider_name)
record_probe_success(b) ==
    [b EXCEPT !.state = "Closed",
              !.failure_count = 0,
              !.probe_in_flight = FALSE]

\* record_probe_failure that keeps the opened_at of the original trip.
record_probe_failure_stale_timer(b, e, t) ==
    [b EXCEPT !.state = "Open",
              !.probe_in_flight = FALSE,
              !.last_error = Some(e)]

\* record_probe_failure(&mut self, provider_name, error_type, message) at t
record_probe_failure(b, e, t) ==
    [b EXCEPT !.state = "Open",
              !.opened_at = Some(t),
              !.probe_in_flight = FALSE,
              !.last_error = Some(e)]

\* ---- watch channel and registry entry -----------------------------------

\* The entry of one provider, as the operations below see it while they hold
\* its mutex: the inner state machine, the value in the watch channel and the
\* receivers subscribed to it.
Entry == [inner |-> inner, probe_watch |-> probe_watch, rx |-> rx]

\* watch::Sender::send: fails and leaves the value alone when no receiver is
\* alive; otherwise stores the value and marks it unseen for every receiver.
watch_send(cb, v) ==
    IF \A c \in Callers : cb.rx[c] = "none"
    THEN cb
    ELSE [cb EXCEPT !.probe_watch = v,
                    !.rx = [c \in Callers |->
                              IF cb.rx[c] = "none" THEN "none" ELSE "changed"]]

\* subscribe that leaves a value already in the channel unseen.
watch_subscribe_unseen(cb) ==
    IF cb.probe_watch = "Pending" THEN "seen" ELSE "changed"

\* watch::Sender::subscribe: the new receiver has seen the current value.
watch_subscribe(cb) == "seen"

\* CircuitBreakerRegistry::record_probe_success
Registry_record_probe_success(cb) ==
    watch_send([cb EXCEPT !.inner = record_probe_success(@)], "Success")

\* record_probe_failure that changes the state and broadcasts nothing.
Registry_record_probe_failure_unsent(cb, e, t) ==
    [cb EXCEPT !.inner = record_probe_failure(@, e, t)]

\* CircuitBreakerRegistry::record_probe_failure
Registry_record_probe_failure(cb, e, t) ==
    watch_send([cb EXCEPT !.inner = record_probe_failure(@, e, t)], "Failed")

\* ---- ProbeGuard ---------------------------------------------------------

ProbeGuard_new == [resolved |-> FALSE]

\* Drop that ignores the resolved flag.
ProbeGuard_drop_unconditional(g, cb, t) ==
    Registry_record_probe_failure(cb, DroppedError, t)

\* impl Drop for ProbeGuard
ProbeGuard_drop(g, cb, t) ==
    IF ~g.resolved
    THEN Registry_record_probe_failure(cb, DroppedError, t)
    ELSE cb

\* ProbeGuard::success(mut self): the guard is consumed, so drop runs at the
\* end of the call.
ProbeGuard_success(g, cb, t) ==
    ProbeGuard_drop([g EXCEPT !.resolved = TRUE],
                    Registry_record_probe_success(cb), t)

\* ProbeGuard::failure(mut self, error_type, message)
ProbeGuard_failure(g, cb, e, t) ==
    ProbeGuard_drop([g EXCEPT !.resolved = TRUE],
                    Registry_record_probe_failure(cb, e, t), t)

\* ---- acquire_permit -----------------------------------------------------

NoInfo == [reason |-> <<>>, trip_count |-> 0]

\* format!("{}: {}", e.error_type, e.message), or "unknown" without an error
Reason(last_error) ==
    IF last_error = None
    THEN <<"unknown">>
    ELSE LET e == CHOOSE x \in last_error : TRUE
         IN  <<e.error_type, ": ", e.message>>

\* Where the caller stands after the match on check_result.
PermitOutcome(result) ==
    CASE result = "Allowed" -> "normal"
      [] result = "ProbePermit" -> "probe"
      [] result = "Rejected" -> "rejected"
      [] result = "WaitForProbe" -> "waiting"

\* acquire_permit up to its first suspension point: check_state, error_info
\* and subscribe() happen in one critical section.
AcquirePermit(c) ==
    /\ pc[c] = "idle"
    /\ LET r == check_state(inner, now)
           info == [reason |-> Reason(r.inner.last_error),
                    trip_count |-> r.inner.trip_count]
       IN  /\ inner' = r.inner
           /\ pc' = [pc EXCEPT ![c] = PermitOutcome(r.result)]
           /\ rx' = [rx EXCEPT ![c] =
                        IF r.result = "WaitForProbe"
                        THEN watch_subscribe(Entry) ELSE "none"]
           /\ error_info' = [error_info EXCEPT ![c] =
                        IF r.result \in {"Rejected", "WaitForProbe"}
                        THEN info ELSE NoInfo]
           /\ awaited' = [awaited EXCEPT ![c] =
                        IF r.result = "WaitForProbe"
                        THEN {h \in Callers : pc[h] = "probe"} ELSE {}]
    /\ heard' = [heard EXCEPT ![c] = <<>>]
    /\ UNCHANGED <<probe_watch, now>>
    /\ UNCHANGED request_vars
    /\ UNCHANGED gate_vars
    /\ UNCHANGED side_vars

\* The WaitForProbe loop: rx.changed() has completed, the current value is
\* borrowed and matched.
WaitResume(c) ==
    /\ pc[c] = "waiting"
    /\ rx[c] = "changed"
    /\ CASE probe_watch = "Success" ->
              /\ pc' = [pc EXCEPT ![c] = "normal"]
              /\ rx' = [rx EXCEPT ![c] = "none"]
              /\ error_info' = [error_info EXCEPT ![c] = NoInfo]
              /\ heard' = [heard EXCEPT ![c] = <<>>]
              /\ awaited' = [awaited EXCEPT ![c] = {}]
         [] probe_watch = "Failed" ->
              /\ pc' = [pc EXCEPT ![c] = "rejected"]
              /\ rx' = [rx EXCEPT ![c] = "none"]
              /\ heard' = [heard EXCEPT ![c] = <<>>]
              /\ awaited' = [awaited EXCEPT ![c] = {}]
              /\ UNCHANGED error_info
         [] probe_watch = "Pending" ->
              /\ rx' = [rx EXCEPT ![c] = "seen"]
              /\ UNCHANGED <<pc, error_info, heard, awaited>>
    /\ UNCHANGED <<inner, probe_watch, now>>
    /\ UNCHANGED request_vars
    /\ UNCHANGED gate_vars
    /\ UNCHANGED side_vars

\* The caller that got Err(CircuitOpenError) gives up on this provider.
ReturnErr(c) ==
    /\ pc[c] = "rejected"
    /\ pc' = [pc EXCEPT ![c] = "idle"]
    /\ error_info' = [error_info EXCEPT ![c] = NoInfo]
    /\ UNCHANGED <<inner, probe_watch, rx, now, heard, awaited>>
    /\ UNCHANGED request_vars
    /\ UNCHANGED gate_vars
    /\ UNCHANGED side_vars

\* ---- outcome recording by permit holders --------------------------------

\* CircuitBreakerRegistry::record_success by the holder of a Normal permit.
NormalSuccess(c) ==
    /\ pc[c] = "normal"
    /\ inner' = record_success(inner)
    /\ pc' = [pc EXCEPT ![c] = "idle"]
    /\ UNCHANGED <<probe_watch, rx, error_info, now, heard, awaited>>
    /\ UNCHANGED request_vars
    /\ UNCHANGED gate_vars
    /\ UNCHANGED side_vars

\* CircuitBreakerRegistry::record_failure by the holder of a Normal permit.
NormalFailure(c, e) ==
    /\ pc[c] = "normal"
    /\ inner.failure_count < MaxFailures
    /\ inner.failure_count + 1 >= FAILURE_THRESHOLD => inner.trip_count < MaxTrips
    /\ inner' = record_failure(inner, e, now)
    /\ pc' = [pc EXCEPT ![c] = "idle"]
    /\ UNCHANGED <<probe_watch, rx, error_info, now, heard, awaited>>
    /\ UNCHANGED request_vars
    /\ UNCHANGED gate_vars
    /\ UNCHANGED side_vars

\* The holder of a Normal permit finishes without recording (an upstream 4xx
\* is neither a success nor a failure of the provider).
NormalRelease(c) ==
    /\ pc[c] = "normal"
    /\ pc' = [pc EXCEPT ![c] = "idle"]
    /\ UNCHANGED <<inner, probe_watch, rx, error_info, now, heard, awaited>>
    /\ UNCHANGED request_vars
    /\ UNCHANGED gate_vars
    /\ UNCHANGED side_vars

SetEntry(cb) ==
    /\ inner' = cb.inner
    /\ probe_watch' = cb.probe_watch
    /\ rx' = cb.rx

\* History of a resolution by probe holder c with the given result.
Resolved(c, result) ==
    /\ heard' = [w \in Callers |->
                   IF pc[w] = "waiting" THEN Append(heard[w], result)
                   ELSE heard[w]]
    /\ awaited' = [w \in Callers |-> awaited[w] \ {c}]

\* The probe holder's request succeeded: guard.success().
ProbeSuccess(c) ==
    /\ pc[c] = "probe"
    /\ SetEntry(ProbeGuard_success(ProbeGuard_new, Entry, now))
    /\ pc' = [pc EXCEPT ![c] = "idle"]
    /\ Resolved(c, "Success")
    /\ UNCHANGED <<error_info, now>>
    /\ UNCHANGED request_vars
    /\ UNCHANGED gate_vars
    /\ UNCHANGED side_vars

\* The probe holder's request failed: guard.failure(error_type, message).
ProbeFailure(c, e) ==
    /\ pc[c] = "probe"
    /\ SetEntry(ProbeGuard_failure(ProbeGuard_new, Entry, e, now))
    /\ pc' = [pc EXCEPT ![c] = "idle"]
    /\ Resolved(c, "Failed")
    /\ UNCHANGED <<error_info, now>>
    /\ UNCHANGED request_vars
    /\ UNCHANGED gate_vars
    /\ UNCHANGED side_vars

\* The probe holder's future is dropped with the guard unresolved.
ProbeDrop(c) ==
    /\ pc[c] = "probe"
    /\ SetEntry(ProbeGuard_drop(ProbeGuard_new, Entry, now))
    /\ pc' = [pc EXCEPT ![c] = "idle"]
    /\ Resolved(c, "Failed")
    /\ UNCHANGED <<error_info, now>>
    /\ UNCHANGED request_vars
    /\ UNCHANGED gate_vars
    /\ UNCHANGED side_vars

\* ---- time ---------------------------------------------------------------

Advance(d) ==
    /\ now + d <= MaxTime
    /\ now' = now + d
    /\ UNCHANGED <<inner, probe_watch, rx, pc, error_info, heard, awaited>>
    /\ UNCHANGED request_vars
    /\ UNCHANGED gate_vars
    /\ UNCHANGED side_vars

\* ---- one chat-completion request ----------------------------------------

\* A provider is named by its rank in the router's cheapest-first order.
Providers == 1..MaxCandidates

\* select_candidates returns the providers in that order; Err(NoProviders)
\* is the empty list.
CandidateLists == {[i \in 1..n |-> i] : n \in 0..MaxCandidates}

\* Seconds an upstream takes to answer a dispatch.
Latencies == {0, 1, MaxLatency}

\* What a dispatch meets: no connection (or a read failure), an HTTP
\* response with a status, or a 200 whose body is not JSON.
UpstreamOutcomes ==
    {[kind |-> "connect_error", status |-> 0],
     [kind |-> "bad_body", status |-> 200]}
    \cup {[kind |-> "http", status |-> s] :
             s \in {200, 400, 429, 500, 501, 502, 503, 504}}

\* send_to_provider: Ok(RequestOutcome) or Err(RequestError) with the
\* status_code the retry module reads through HasStatusCode.
send_to_provider(provider, o, streaming) ==
    IF o.kind = "connect_error"
    THEN [ok |-> FALSE, provider_name |-> provider, status_code |-> 502]
    ELSE IF ~(o.status >= 200 /\ o.status <= 299)
    THEN [ok |-> FALSE, provider_name |-> provider, status_code |-> o.status]
    ELSE IF ~streaming /\ o.kind = "bad_body"
    THEN [ok |-> FALSE, provider_name |-> provider, status_code |-> 502]
    ELSE [ok |-> TRUE, provider_name |-> provider, status_code |-> 200]

\* is_retryable that takes every 5xx for transient.
is_retryable_any_5xx(status_code) == status_code >= 500 /\ status_code <= 599

\* is_retryable without 502.
is_retryable_no_502(status_code) == status_code \in {500, 503, 504}

\* is_retryable(status_code)
is_retryable(status_code) == status_code \in {500, 502, 503, 504}

\* The backoff indexed by attempt instead of attempt - 1.
backoff_shifted(attempt) == BACKOFF_DURATIONS[attempt + 1]

\* BACKOFF_DURATIONS[(attempt - 1) as usize], the sleep before primary
\* attempt number `attempt` (counted from 0, attempt > 0).
backoff(attempt) == BACKOFF_DURATIONS[(attempt - 1) + 1]

AttemptRecord(res) ==
    [provider_name |-> res.provider_name, status_code |-> res.status_code]

\* The locals of a retry_with_fallback call that has not dispatched yet.
RetryStart == [target |-> "primary", attempt |-> 0, last_error |-> None]

\* A streaming path that hands its dispatch to the retry loop.
StreamStart_retrying == [target |-> "primary", attempt |-> 0, last_error |-> None]

\* The locals of execute_request (the streaming path), which dispatches once.
StreamStart == [target |-> "stream", attempt |-> 0, last_error |-> None]

NoRetry == [target |-> "none", attempt |-> 0, last_error |-> None]

\* retry_with_fallback with the loop bound written 0..=MAX_RETRIES + 1.
retry_with_fallback_extra_attempt(r, res, n) ==
    IF res.ok
    THEN [next |-> "return", retry |-> r, record |-> FALSE,
          result |-> Some(res)]
    ELSE IF r.target = "fallback"
    THEN [next |-> "return", retry |-> r, record |-> TRUE,
          result |-> Some(res)]
    ELSE IF ~is_retryable(res.status_code)
    THEN [next |-> "return", retry |-> r, record |-> TRUE,
          result |-> Some(res)]
    ELSE IF r.attempt < MAX_RETRIES + 1
    THEN [next |-> "sleep",
          retry |-> [r EXCEPT !.attempt = @ + 1, !.last_error = Some(res)],
          record |-> TRUE, result |-> None]
    ELSE IF n > 1
    THEN [next |-> "send",
          retry |-> [r EXCEPT !.target = "fallback", !.last_error = Some(res)],
          record |-> TRUE, result |-> None]
    ELSE [next |-> "return", retry |-> [r EXCEPT !.last_error = Some(res)],
          record |-> TRUE, result |-> Some(res)]

\* retry_with_fallback that does not record the fallback's failure.
retry_with_fallback_fallback_unrecorded(r, res, n) ==
    IF res.ok
    THEN [next |-> "return", retry |-> r, record |-> FALSE,
          result |-> Some(res)]
    ELSE IF r.target = "fallback"
    THEN [next |-> "return", retry |-> r, record |-> FALSE,
          result |-> Some(res)]
    ELSE IF ~is_retryable(res.status_code)
    THEN [next |-> "return", retry |-> r, record |-> TRUE,
          result |-> Some(res)]
    ELSE IF r.attempt < MAX_RETRIES
    THEN [next |-> "sleep",
          retry |-> [r EXCEPT !.attempt = @ + 1, !.last_error = Some(res)],
          record |-> TRUE, result |-> None]
    ELSE IF n > 1
    THEN [next |-> "send",
          retry |-> [r EXCEPT !.target = "fallback", !.last_error = Some(res)],
          record |-> TRUE, result |-> None]
    ELSE [next |-> "return", retry |-> [r EXCEPT !.last_error = Some(res)],
          record |-> TRUE, result |-> Some(res)]

\* retry_with_fallback from the return of send_request (res) for the
\* candidate r.target, n candidates given, up to its next suspension point or
\* its return: whether the failure is pushed to the attempt list, the new
\* locals, and what comes next (return, the backoff sleep, or the fallback's
\* send_request).
retry_with_fallback(r, res, n) ==
    IF res.ok
    THEN [next |-> "return", retry |-> r, record |-> FALSE,
          result |-> Some(res)]
    ELSE IF r.target = "fallback"
    THEN [next |-> "return", retry |-> r, record |-> TRUE,
          result |-> Some(res)]
    ELSE IF ~is_retryable(res.status_code)
    THEN [next |-> "return", retry |-> r, record |-> TRUE,
          result |-> Some(res)]
    ELSE IF r.attempt < MAX_RETRIES
    THEN [next |-> "sleep",
          retry |-> [r EXCEPT !.attempt = @ + 1, !.last_error = Some(res)],
          record |-> TRUE, result |-> None]
    ELSE IF n > 1
    THEN [next |-> "send",
          retry |-> [r EXCEPT !.target = "fallback", !.last_error = Some(res)],
          record |-> TRUE, result |-> None]
    ELSE [next |-> "return", retry |-> [r EXCEPT !.last_error = Some(res)],
          record |-> TRUE, result |-> Some(res)]

\* The (count, name) pairs of format_retries_header, in order of first
\* appearance.
RECURSIVE retries_counts(_, _)
retries_counts(recs, counts) ==
    IF recs = <<>>
    THEN counts
    ELSE LET a == Head(recs)
             found == {i \in 1..Len(counts) : counts[i].name = a.provider_name}
         IN  IF found # {}
             THEN LET i == CHOOSE i \in found : \A j \in found : i <= j
                  IN  retries_counts(Tail(recs),
                                     [counts EXCEPT ![i].count = @ + 1])
             ELSE retries_counts(Tail(recs),
                                 Append(counts, [count |-> 1,
                                                 name |-> a.provider_name]))

\* A header with one item per attempt, providers not merged.
format_retries_header_per_attempt(recs) ==
    IF recs = <<>>
    THEN None
    ELSE Some([i \in 1..Len(recs) |->
                 [count |-> 1, name |-> recs[i].provider_name]])

\* format_retries_header(attempts): None for an empty list, else the
\* "count/name" items in order.
format_retries_header(recs) ==
    IF recs = <<>> THEN None ELSE Some(retries_counts(recs, <<>>))

\* A handler that reads the attempt list only from the retry outcome: after
\* a timeout it has none.
timeout_response_outcome_owned(recs) ==
    [status |-> 504, provider |-> None,
     retries |-> format_retries_header(<<>>),
     message |-> "Request timed out after 30 seconds (retry budget exhausted)"]

\* The Err(_elapsed) arm of chat_completions: 504 Gateway Timeout with the
\* x-arbstr-retries header built from the shared attempt list.
timeout_response(recs) ==
    [status |-> 504, provider |-> None,
     retries |-> format_retries_header(recs),
     message |-> "Request timed out after 30 seconds (retry budget exhausted)"]

\* The Ok(retry_outcome) arm of chat_completions, and the response the
\* streaming path builds from execute_request's result.  Error::Provider
\* renders as 502 Bad Gateway.
outcome_response(res, recs, streaming) ==
    [status |-> IF res.ok THEN 200 ELSE 502,
     provider |-> Some(res.provider_name),
     retries |-> IF streaming THEN None ELSE format_retries_header(recs),
     message |-> IF res.ok THEN "" ELSE "Provider error"]

\* The routing error arm: Err(NoProviders) renders as 400.
routing_error_response ==
    [status |-> 400, provider |-> None, retries |-> None,
     message |-> "No providers available"]

\* A timeout row that says only that the request failed.
timeout_log_bare(recs) ==
    [provider |-> IF recs = <<>> THEN None
                  ELSE Some(recs[Len(recs)].provider_name),
     streaming |-> FALSE, success |-> FALSE,
     error_status |-> None, error_message |-> None]

\* The RequestLog of the Err(_elapsed) arm: the provider of the last
\* recorded attempt, error_status 504 and the timeout message.
timeout_log(recs) ==
    [provider |-> IF recs = <<>> THEN None
                  ELSE Some(recs[Len(recs)].provider_name),
     streaming |-> FALSE, success |-> FALSE,
     error_status |-> Some(504),
     error_message |->
        Some("Request timed out after 30 seconds (retry budget exhausted)")]

\* RequestError.message of a failed dispatch.
error_message_of(res) == <<"Provider returned", res.status_code>>

\* The RequestLog of the Ok and Err arms of both paths: a success row
\* without error fields, or a failure row with the error's status_code and
\* message.
outcome_log(res, streaming) ==
    [provider |-> Some(res.provider_name),
     streaming |-> streaming, success |-> res.ok,
     error_status |-> IF res.ok THEN None ELSE Some(res.status_code),
     error_message |-> IF res.ok THEN None ELSE Some(error_message_of(res))]

\* The RequestLog of the routing error arm: no provider, status 400 and the
\* error's text.
routing_error_log ==
    [provider |-> None, streaming |-> FALSE, success |-> FALSE,
     error_status |-> Some(400),
     error_message |-> Some("No providers available")]

\* The candidate the pending or next dispatch goes to.
Target == IF retry.target = "fallback" THEN candidates[2] ELSE candidates[1]

\* No request is being handled.
NoRequest ==
    /\ is_streaming = FALSE
    /\ candidates = <<>>
    /\ rpc = "none"
    /\ retry = NoRetry
    /\ due = 0
    /\ deadline = 0
    /\ attempts = <<>>
    /\ retry_result = None
    /\ response = None
    /\ log_entry = None
    /\ dispatched = <<>>
    /\ breakers = [p \in Providers |-> CircuitBreakerInner_new]

\* chat_completions up to its first dispatch: routing, then either
\* execute_request (streaming) or the attempt list, the deadline and
\* retry_with_fallback under timeout_at.
HandlerBegin ==
    /\ rpc = "start"
    /\ IF candidates = <<>>
       THEN /\ response' = Some(routing_error_response)
            /\ log_entry' = Some(routing_error_log)
            /\ rpc' = "responded"
            /\ UNCHANGED <<retry, deadline, attempts>>
       ELSE IF is_streaming
       THEN /\ retry' = StreamStart
            /\ rpc' = "ready"
            /\ UNCHANGED <<response, log_entry, deadline, attempts>>
       ELSE /\ retry' = RetryStart
            /\ attempts' = <<>>
            /\ deadline' = now + RETRY_TIMEOUT
            /\ rpc' = "ready"
            /\ UNCHANGED <<response, log_entry>>
    /\ UNCHANGED <<is_streaming, candidates, due, retry_result, dispatched, now>>
    /\ UNCHANGED breaker_vars
    /\ UNCHANGED gate_vars
    /\ UNCHANGED side_vars

\* Uuid's Display: the hyphenated text of the value.
Uuid_to_string(u) == <<"uuid", u>>

\* request_id.0.to_string(), where the stack in front of the handler is
\* modelled and has stored a RequestId.
correlation_id == {Uuid_to_string(u) : u \in request_id}

\* An upstream request without the key.
upstream_headers_no_key(id) == [idempotency_key |-> None]

\* The headers send_to_provider puts on the upstream request that depend on
\* the client's request: Idempotency-Key with the correlation id.
upstream_headers(id) == [idempotency_key |-> id]

\* Option<StreamOptions> of a request: absent, present without
\* include_usage, present with include_usage true or false.
StreamOptionsValues ==
    {None,
     Some([include_usage |-> None]),
     Some([include_usage |-> Some(TRUE)]),
     Some([include_usage |-> Some(FALSE)])}

\* An injection that overwrites what the client chose.
ensure_stream_options_overwrite(request) ==
    [request EXCEPT !.stream_options = Some([include_usage |-> Some(TRUE)])]

\* ensure_stream_options: include_usage becomes Some(true) where the options
\* or the field are absent; a value the client set stays.
ensure_stream_options(request) ==
    IF request.stream_options = None
    THEN [request EXCEPT
             !.stream_options = Some([include_usage |-> Some(TRUE)])]
    ELSE LET opts == CHOOSE o \in request.stream_options : TRUE
         IN  IF opts.include_usage = None
             THEN [request EXCEPT
                      !.stream_options =
                         Some([opts EXCEPT !.include_usage = Some(TRUE)])]
             ELSE request

\* The request_body of send_to_provider: the clone of the request, with
\* ensure_stream_options applied when the dispatch is a streaming one.
request_body(request, streaming) ==
    IF streaming THEN ensure_stream_options(request) ELSE request

\* The body of the upstream request, where the client's request is modelled.
upstream_body == {request_body(req, is_streaming) : req \in http_request}

\* send_request(candidate): the request leaves for the upstream, which will
\* answer lat seconds later.
SendRequest(lat) ==
    /\ rpc = "ready"
    /\ rpc' = "inflight"
    /\ due' = now + lat
    /\ dispatched' = Append(dispatched,
                            [provider |-> Target, start |-> now,
                             end |-> now, kind |-> "pending",
                             status_code |-> 0,
                             headers |-> upstream_headers(correlation_id),
                             body |-> upstream_body])
    /\ UNCHANGED <<is_streaming, candidates, retry, deadline, attempts,
                   retry_result, response, log_entry, now>>
    /\ UNCHANGED breaker_vars
    /\ UNCHANGED gate_vars
    /\ UNCHANGED side_vars

\* The upstream's answer o arrives and the awaited future runs to its next
\* suspension point or to its return.
ResponseArrives(o) ==
    /\ rpc = "inflight"
    /\ now = due
    /\ LET res == send_to_provider(Target, o, is_streaming)
           step == retry_with_fallback(retry, res, Len(candidates))
       IN  /\ dispatched' = [dispatched EXCEPT ![Len(dispatched)] =
                               [@ EXCEPT !.end = now,
                                         !.kind = o.kind,
                                         !.status_code = res.status_code]]
           /\ IF retry.target = "stream"
              THEN /\ retry_result' = Some(res)
                   /\ rpc' = "returned"
                   /\ UNCHANGED <<retry, attempts, due>>
              ELSE /\ attempts' = IF step.record
                                  THEN Append(attempts, AttemptRecord(res))
                                  ELSE attempts
                   /\ retry' = step.retry
                   /\ retry_result' = step.result
                   /\ rpc' = CASE step.next = "return" -> "returned"
                               [] step.next = "sleep" -> "sleeping"
                               [] step.next = "send" -> "ready"
                   /\ due' = IF step.next = "sleep"
                             THEN now + backoff(step.retry.attempt)
                             ELSE due
    /\ UNCHANGED <<is_streaming, candidates, deadline, response, log_entry,
                   now>>
    /\ UNCHANGED breaker_vars
    /\ UNCHANGED side_vars

\* The same in a handler that records nothing in the registry.
UpstreamResponds(o) ==
    /\ ResponseArrives(o)
    /\ UNCHANGED gate_vars

\* tokio::time::sleep(backoff) completes.
BackoffElapsed ==
    /\ rpc = "sleeping"
    /\ now = due
    /\ rpc' = "ready"
    /\ UNCHANGED <<is_streaming, candidates, retry, due, deadline, attempts,
                   retry_result, response, log_entry, dispatched, now>>
    /\ UNCHANGED breaker_vars
    /\ UNCHANGED gate_vars
    /\ UNCHANGED side_vars

\* Time passes while the future is suspended, up to the next timer or
\* arrival.
TimePasses ==
    /\ rpc \in {"inflight", "sleeping"}
    /\ now < due
    /\ ~is_streaming => now < deadline
    /\ now' = IF ~is_streaming /\ deadline < due THEN deadline ELSE due
    /\ UNCHANGED request_vars
    /\ UNCHANGED breaker_vars
    /\ UNCHANGED gate_vars
    /\ UNCHANGED side_vars

\* timeout_at(deadline, ...) returns Err(Elapsed): the retry future is
\* dropped where it is suspended and the handler answers.  A sleep that ends
\* at the deadline is polled first and goes on to dispatch.
DeadlineExpires ==
    /\ ~is_streaming
    /\ rpc \in {"inflight", "sleeping"}
    /\ now = deadline
    /\ rpc = "sleeping" => due > now
    /\ response' = Some(timeout_response(attempts))
    /\ log_entry' = Some(timeout_log(attempts))
    /\ rpc' = "responded"
    /\ UNCHANGED <<is_streaming, candidates, retry, due, deadline, attempts,
                   retry_result, dispatched, now>>
    /\ UNCHANGED breaker_vars
    /\ UNCHANGED gate_vars
    /\ UNCHANGED side_vars

\* The awaited future has returned and the handler builds the response.
HandlerResponds ==
    /\ rpc = "returned"
    /\ \E res \in retry_result :
          /\ response' = Some(outcome_response(res, attempts, is_streaming))
          /\ log_entry' = Some(outcome_log(res, is_streaming))
    /\ rpc' = "responded"
    /\ UNCHANGED <<is_streaming, candidates, retry, due, deadline, attempts,
                   retry_result, dispatched, now>>
    /\ UNCHANGED breaker_vars
    /\ UNCHANGED gate_vars
    /\ UNCHANGED side_vars

\* ---- the registry beside the request ------------------------------------
\* The CircuitBreakerRegistry the server is started with; chat_completions
\* and health never call it.

\* The upstream outcomes the server is driven with: a connect failure, a
\* success, a client error and a retryable server error.
ServerOutcomes ==
    {[kind |-> "connect_error", status |-> 0]}
    \cup {[kind |-> "http", status |-> s] : s \in {200, 400, 503}}

\* CircuitBreakerRegistry::record_failure for provider p by another request,
\* before this one arrives.
OtherRequestFails(p, e) ==
    /\ rpc = "start"
    /\ now = 0
    /\ p \in 1..Len(candidates)
    /\ breakers[p].state = "Closed"
    /\ breakers' = [breakers EXCEPT ![p] = record_failure(@, e, now)]
    /\ UNCHANGED now
    /\ UNCHANGED request_vars
    /\ UNCHANGED breaker_vars
    /\ UNCHANGED side_vars

\* Time passes before the request arrives.
ClockAdvances(d) ==
    /\ rpc = "start"
    /\ now = 0
    /\ now' = now + d
    /\ UNCHANGED gate_vars
    /\ UNCHANGED request_vars
    /\ UNCHANGED breaker_vars
    /\ UNCHANGED side_vars

\* ---- GET /health ---------------------------------------------------------

\* The providers the registry was built for: CircuitBreakerRegistry::new
\* inserts one breaker per configured provider, here the request's candidates.
Registered == {candidates[i] : i \in 1..Len(candidates)}

\* CircuitState::as_str
as_str(state) ==
    CASE state = "Closed" -> "closed"
      [] state = "Open" -> "open"
      [] state = "HalfOpen" -> "half_open"

\* health(): the handler takes no state and answers a constant body with
\* the default status of Json, 200.
health == [http |-> 200, status |-> "ok", service |-> "arbstr"]

\* A GET /health is answered.
GetHealth ==
    /\ health_response = None
    /\ health_response' = Some(health)
    /\ UNCHANGED <<sse_vars, router_vars, http_vars, ledger_vars>>
    /\ UNCHANGED <<request_vars, now>>
    /\ UNCHANGED breaker_vars
    /\ UNCHANGED gate_vars

\* CircuitBreakerRegistry::acquire_permit(p) called on the registry from
\* outside the request, as the tests do to move an Open breaker on.
RegistryAcquire(p) ==
    /\ rpc = "start"
    /\ p \in Registered
    /\ breakers[p].state # "Closed"
    /\ breakers' = [breakers EXCEPT ![p] = check_state(@, now).inner]
    /\ UNCHANGED now
    /\ UNCHANGED request_vars
    /\ UNCHANGED breaker_vars
    /\ UNCHANGED side_vars

\* ---- SseObserver ---------------------------------------------------------
\* Bytes are written as symbols, each standing for the bytes of its text;
\* Filler stands for BUFFER_CAP bytes 'x' without a newline.

Filler == "x*BUFFER_CAP"

\* The number of bytes a symbol stands for.
byte_len(sym) ==
    CASE sym = Filler -> BUFFER_CAP
      [] sym = "data:" -> 5
      [] sym = "event:" -> 6
      [] sym = "[DONE]" -> 6
      [] sym = "{usage" -> 40
      [] sym = "{finish" -> 40
      [] OTHER -> 1

\* Vec<u8>::len
RECURSIVE buffer_len(_)
buffer_len(buf) ==
    IF buf = <<>> THEN 0 ELSE byte_len(Head(buf)) + buffer_len(Tail(buf))

\* SseObserver::with_handle
SseObserver_with_handle ==
    [buffer |-> <<>>,
     usage |-> None,
     finish_reason |-> None,
     done_received |-> FALSE,
     result_handle |-> TRUE]

\* StreamResult::empty
StreamResult_empty ==
    [usage |-> None, finish_reason |-> None, done_received |-> FALSE]

\* str::trim: whitespace at both ends goes.
RECURSIVE trim_start(_)
trim_start(data) ==
    IF data # <<>> /\ Head(data) \in {" ", "\r"}
    THEN trim_start(Tail(data))
    ELSE data

RECURSIVE trim_end(_)
trim_end(data) ==
    IF data # <<>> /\ data[Len(data)] \in {" ", "\r"}
    THEN trim_end(SubSeq(data, 1, Len(data) - 1))
    ELSE data

trim(data) == trim_end(trim_start(data))

\* serde_json::from_str: Some(value) for a complete JSON object, None for
\* anything else.  "{usage" and "{finish" are the first part of an object,
\* cut inside a quoted string, "}" is the rest of it; blanks inside the
\* string are part of it.
from_str(data) ==
    IF /\ Len(data) >= 2
       /\ data[1] \in {"{usage", "{finish"}
       /\ data[Len(data)] = "}"
       /\ \A i \in 2..(Len(data) - 1) : data[i] = " "
    THEN Some([finish_reason |-> IF data[1] = "{finish"
                                 THEN Some("stop") ELSE None,
               usage |-> IF data[1] = "{usage"
                         THEN Some([prompt_tokens |-> 6,
                                    completion_tokens |-> 10])
                         ELSE None])
    ELSE None

\* SseObserver::process_data
process_data(o, data0) ==
    LET data == trim(data0)
        parsed == from_str(data)
    IN  IF data = <<"[DONE]">>
        THEN [o EXCEPT !.done_received = TRUE]
        ELSE IF parsed = None
        THEN o
        ELSE LET v == CHOOSE v \in parsed : TRUE
                 o1 == IF v.finish_reason # None
                       THEN [o EXCEPT !.finish_reason = v.finish_reason]
                       ELSE o
             IN  IF v.usage # None
                 THEN [o1 EXCEPT !.usage = v.usage]
                 ELSE o1

\* SseObserver::process_line
process_line(o, line) ==
    IF line = <<>>
    THEN o
    ELSE IF Head(line) = ":"
    THEN o
    ELSE IF Head(line) = "event:"
    THEN o
    ELSE IF Head(line) = "data:"
    THEN IF Len(line) >= 2 /\ line[2] = " "
         THEN process_data(o, Tail(Tail(line)))
         ELSE process_data(o, Tail(line))
    ELSE o

\* std::str::from_utf8(..).is_ok()
from_utf8_ok(line_bytes) ==
    \A i \in 1..Len(line_bytes) : line_bytes[i] # "0xFF"

\* buffer.iter().position(|&b| b == b'\n'), counted from 1; 0 for None.
newline_pos(buf) ==
    IF \E i \in 1..Len(buf) : buf[i] = "\n"
    THEN CHOOSE i \in 1..Len(buf) :
            /\ buf[i] = "\n"
            /\ \A j \in 1..(i - 1) : buf[j] # "\n"
    ELSE 0

\* The loop of process_chunk: every complete line of the buffer, in order.
RECURSIVE process_lines(_)
process_lines(o) ==
    LET pos == newline_pos(o.buffer)
    IN  IF pos = 0
        THEN o
        ELSE LET line_end == IF pos > 1 /\ o.buffer[pos - 1] = "\r"
                             THEN pos - 2
                             ELSE pos - 1
                 line_bytes == SubSeq(o.buffer, 1, line_end)
                 o1 == [o EXCEPT !.buffer =
                                   SubSeq(o.buffer, pos + 1, Len(o.buffer))]
             IN  process_lines(IF from_utf8_ok(line_bytes)
                               THEN process_line(o1, line_bytes)
                               ELSE o1)

\* process_chunk that drops what follows the last newline.
process_chunk_drop_tail(o, bytes) ==
    LET o1 == process_lines([o EXCEPT !.buffer = o.buffer \o bytes])
    IN  [o1 EXCEPT !.buffer = <<>>]

\* SseObserver::process_chunk
process_chunk(o, bytes) ==
    LET buf == o.buffer \o bytes
    IN  IF buffer_len(buf) > BUFFER_CAP
        THEN [o EXCEPT !.buffer = <<>>]
        ELSE process_lines([o EXCEPT !.buffer = buf])

\* flush_buffer that leaves the residual bytes unread.
flush_buffer_skip(o) == [o EXCEPT !.buffer = <<>>]

\* SseObserver::flush_buffer
flush_buffer(o) ==
    IF o.buffer = <<>>
    THEN o
    ELSE LET remaining == o.buffer
             line_bytes == IF remaining[Len(remaining)] = "\r"
                           THEN SubSeq(remaining, 1, Len(remaining) - 1)
                           ELSE remaining
             o1 == [o EXCEPT !.buffer = <<>>]
         IN  IF from_utf8_ok(line_bytes)
             THEN process_line(o1, line_bytes)
             ELSE o1

\* build_result that reports what it has whether or not [DONE] was seen.
build_result_partial(o) ==
    [usage |-> o.usage,
     finish_reason |-> o.finish_reason,
     done_received |-> o.done_received]

\* SseObserver::build_result
build_result(o) ==
    IF ~o.done_received
    THEN StreamResult_empty
    ELSE [usage |-> o.usage,
          finish_reason |-> o.finish_reason,
          done_received |-> TRUE]

\* impl Drop for SseObserver: the value left in the handle.
drop_result(o) == build_result(flush_buffer(o))

\* ---- wrap_sse_stream -----------------------------------------------------

\* The pieces the upstream's bytes are made of: data lines with a finish
\* reason and with usage (LF and CRLF, with and without the blank after the
\* colon), [DONE] with and without its newline, a comment and the blank
\* line between events, a line that is not UTF-8, a data line whose JSON is
\* cut short, BUFFER_CAP bytes without a newline, and one such byte.
SseRecords ==
    {<<"data:", " ", "{finish", "}", "\n">>,
     <<"data:", "{usage", "}", "\r", "\n">>,
     <<"data:", " ", "[DONE]", "\n">>,
     <<"data:", "[DONE]">>,
     <<":", "\n", "\n">>,
     <<"data:", "0xFF", "\n">>,
     <<"data:", "{usage", "\n">>,
     <<Filler>>,
     <<"x">>}

\* The byte sequences of at most n pieces.
RECURSIVE SseContents(_)
SseContents(n) ==
    IF n = 0
    THEN {<<>>}
    ELSE LET shorter == SseContents(n - 1)
         IN  shorter \cup {c \o r : c \in shorter, r \in SseRecords}

\* The observer the wrapper's closure owns.
TheObserver == CHOOSE o \in observer : TRUE

\* The closure of wrap_sse_stream that yields only what the observer kept.
wrap_item_filtered(o, item) ==
    IF item.ok
    THEN [yield |-> IF buffer_len(o.buffer \o item.bytes) > BUFFER_CAP
                    THEN [ok |-> TRUE, bytes |-> <<>>]
                    ELSE item,
          observer |-> process_chunk(o, item.bytes)]
    ELSE [yield |-> [ok |-> FALSE, bytes |-> <<>>], observer |-> o]

\* The closure of wrap_sse_stream applied to one upstream item: the observer
\* sees the bytes of an Ok item, which is yielded as it came; an Err is
\* yielded as an io::Error.
wrap_item(o, item) ==
    IF item.ok
    THEN [yield |-> item, observer |-> process_chunk(o, item.bytes)]
    ELSE [yield |-> [ok |-> FALSE, bytes |-> <<>>], observer |-> o]

\* The wrapped stream is polled and the upstream yields its next k bytes.
SsePoll(k) ==
    /\ sse_phase = "streaming"
    /\ k >= 1
    /\ sse_pos + k <= Len(sse_source)
    /\ LET item == [ok |-> TRUE,
                    bytes |-> SubSeq(sse_source, sse_pos + 1, sse_pos + k)]
           w == wrap_item(TheObserver, item)
       IN  /\ observer' = Some(w.observer)
           /\ last_yield' = Some(w.yield)
           /\ forwarded' = forwarded \o w.yield.bytes
           /\ discarded' =
                (discarded \/
                 buffer_len(TheObserver.buffer \o item.bytes) > BUFFER_CAP)
    /\ sse_pos' = sse_pos + k
    /\ UNCHANGED <<sse_source, sse_phase, handle, handle_writes>>
    /\ UNCHANGED <<health_response, router_vars, http_vars, ledger_vars>>
    /\ UNCHANGED <<request_vars, now>>
    /\ UNCHANGED breaker_vars
    /\ UNCHANGED gate_vars

\* The upstream yields all it has left as one chunk.
SsePollRest == SsePoll(Len(sse_source) - sse_pos)

\* The wrapped stream is polled and the upstream yields an error, after
\* which it yields nothing more.
SseUpstreamError ==
    /\ sse_phase = "streaming"
    /\ LET w == wrap_item(TheObserver, [ok |-> FALSE, bytes |-> <<>>])
       IN  /\ observer' = Some(w.observer)
           /\ last_yield' = Some(w.yield)
           /\ forwarded' = forwarded \o w.yield.bytes
    /\ sse_phase' = "ended"
    /\ UNCHANGED <<sse_source, sse_pos, handle, handle_writes, discarded>>
    /\ UNCHANGED <<health_response, router_vars, http_vars, ledger_vars>>
    /\ UNCHANGED <<request_vars, now>>
    /\ UNCHANGED breaker_vars
    /\ UNCHANGED gate_vars

\* The upstream has sent everything: it yields None and so does the wrapped
\* stream, which still owns its closure and the observer.
SseEnd ==
    /\ sse_phase = "streaming"
    /\ sse_pos = Len(sse_source)
    /\ sse_phase' = "ended"
    /\ UNCHANGED <<sse_source, sse_pos, observer, handle, forwarded,
                   last_yield, handle_writes, discarded>>
    /\ UNCHANGED <<health_response, router_vars, http_vars, ledger_vars>>
    /\ UNCHANGED <<request_vars, now>>
    /\ UNCHANGED breaker_vars
    /\ UNCHANGED gate_vars

\* The wrapped stream is dropped, consumed or not: its closure drops the
\* observer, whose Drop writes the result to the handle.
SseDrop ==
    /\ sse_phase \in {"streaming", "ended"}
    /\ IF TheObserver.result_handle
       THEN /\ handle' = Some(drop_result(TheObserver))
            /\ handle_writes' = handle_writes + 1
       ELSE UNCHANGED <<handle, handle_writes>>
    /\ observer' = None
    /\ sse_phase' = "dropped"
    /\ UNCHANGED <<sse_source, sse_pos, forwarded, last_yield, discarded>>
    /\ UNCHANGED <<health_response, router_vars, http_vars, ledger_vars>>
    /\ UNCHANGED <<request_vars, now>>
    /\ UNCHANGED breaker_vars
    /\ UNCHANGED gate_vars

\* ---- Router --------------------------------------------------------------

\* Result<T, Error>
Ok(v) == [ok |-> TRUE, value |-> v]
Err(e) == [ok |-> FALSE, error |-> e]

\* Error::NoProviders { model }, Error::NoPolicyMatch and Error::BadRequest
\* with the message apply_policy_constraints formats.
NoProviders(model) == [kind |-> "NoProviders", model |-> model]
NoPolicyMatch == [kind |-> "NoPolicyMatch"]
BadRequest(model, policy) ==
    [kind |-> "BadRequest",
     message |-> <<"Model '", model, "' not allowed by policy '",
                   policy, "'">>]

\* A string of a prompt or a keyword is the sequence of its characters.
\* char::to_lowercase on the letters they are written in.
char_to_lowercase(c) ==
    CASE c = "A" -> "a"
      [] c = "B" -> "b"
      [] c = "C" -> "c"
      [] OTHER -> c

\* str::to_lowercase
to_lowercase(s) == [i \in 1..Len(s) |-> char_to_lowercase(s[i])]

\* str::contains(pat): pat occurs in s as a contiguous substring; the empty
\* pattern occurs in every string.
contains(s, pat) ==
    \E i \in 0..(Len(s) - Len(pat)) : SubSeq(s, i + 1, i + Len(pat)) = pat

\* ChatCompletionRequest::user_prompt: the content of the last message whose
\* role is "user".
user_prompt(messages) ==
    LET users == {i \in 1..Len(messages) : messages[i].role = "user"}
    IN  IF users = {}
        THEN None
        ELSE Some(messages[CHOOSE i \in users :
                              \A j \in users : j <= i].content)

\* The first element of a non-empty set of indices: what iter().find and the
\* for loop over policy_rules stop at.
first_index(found) == CHOOSE i \in found : \A j \in found : i <= j

\* A lookup by name that gives up when the header names no policy.
find_policy_header_only(rules, policy_name, prompt) ==
    LET named == {i \in 1..Len(rules) :
                     \E name \in policy_name : rules[i].name = name}
        matched == {i \in 1..Len(rules) :
                     \E text \in prompt :
                        \E k \in 1..Len(rules[i].keywords) :
                           contains(to_lowercase(text),
                                    to_lowercase(rules[i].keywords[k]))}
    IN  IF policy_name # None
        THEN IF named # {} THEN Some(rules[first_index(named)]) ELSE None
        ELSE IF matched # {}
        THEN Some(rules[first_index(matched)])
        ELSE None

\* Router::find_policy: the first rule of the given name, if a name is given
\* and a rule has it; failing that the first rule one of whose keywords,
\* lowercased, occurs in the lowercased prompt; failing that None.
find_policy(rules, policy_name, prompt) ==
    LET named == {i \in 1..Len(rules) :
                     \E name \in policy_name : rules[i].name = name}
        matched == {i \in 1..Len(rules) :
                     \E text \in prompt :
                        \E k \in 1..Len(rules[i].keywords) :
                           contains(to_lowercase(text),
                                    to_lowercase(rules[i].keywords[k]))}
    IN  IF named # {}
        THEN Some(rules[first_index(named)])
        ELSE IF matched # {}
        THEN Some(rules[first_index(matched)])
        ELSE None

\* Vec::retain and Iterator::filter: the elements of s that are in keep, in
\* their order.
RECURSIVE retain(_, _)
retain(s, keep) ==
    IF s = <<>>
    THEN <<>>
    ELSE IF Head(s) \in keep
    THEN <<Head(s)>> \o retain(Tail(s), keep)
    ELSE retain(Tail(s), keep)

\* The set of the elements of a sequence.
elements(s) == {s[i] : i \in 1..Len(s)}

\* Whether a provider serves the model: it lists no models or lists it.
supports(p, model) ==
    p.models = <<>> \/ \E i \in 1..Len(p.models) : p.models[i] = model

\* Constraints that check the allow-list and leave the ceiling aside.
apply_policy_constraints_no_ceiling(cands, policy, model) ==
    IF policy.allowed_models # <<>>
       /\ ~\E i \in 1..Len(policy.allowed_models) :
              policy.allowed_models[i] = model
    THEN Err(BadRequest(model, policy.name))
    ELSE IF cands = <<>> THEN Err(NoPolicyMatch) ELSE Ok(cands)

\* Router::apply_policy_constraints
apply_policy_constraints(cands, policy, model) ==
    IF policy.allowed_models # <<>>
       /\ ~\E i \in 1..Len(policy.allowed_models) :
              policy.allowed_models[i] = model
    THEN Err(BadRequest(model, policy.name))
    ELSE LET filtered ==
                 IF policy.max_sats_per_1k_output # None
                 THEN retain(cands,
                             {p \in elements(cands) :
                                 \E max_sats \in policy.max_sats_per_1k_output :
                                    p.output_rate <= max_sats})
                 ELSE cands
         IN  IF filtered = <<>> THEN Err(NoPolicyMatch) ELSE Ok(filtered)

\* The key select_candidates sorts by.
routing_cost(p) == p.output_rate + p.base_fee

\* A sort that puts an element before its equals: not stable.
insert_before_equals(sorted, p) ==
    LET before == {i \in 1..Len(sorted) :
                      routing_cost(sorted[i]) < routing_cost(p)}
        n == Cardinality(before)
    IN  SubSeq(sorted, 1, n) \o <<p>> \o SubSeq(sorted, n + 1, Len(sorted))

\* One insertion of the stable sort: p goes behind every element whose key
\* is not larger than its own.
insert_by_key(sorted, p) ==
    LET before == {i \in 1..Len(sorted) :
                      routing_cost(sorted[i]) <= routing_cost(p)}
        n == Cardinality(before)
    IN  SubSeq(sorted, 1, n) \o <<p>> \o SubSeq(sorted, n + 1, Len(sorted))

\* slice::sort_by_key(|p| p.output_rate + p.base_fee): stable, ascending.
RECURSIVE sort_by_key(_)
sort_by_key(s) ==
    IF s = <<>>
    THEN <<>>
    ELSE insert_by_key(sort_by_key(SubSeq(s, 1, Len(s) - 1)), s[Len(s)])

\* SelectedProvider::from(&ProviderConfig): the fields of the routing
\* decision, without the model list.
SelectedProvider_from(config) ==
    [name |-> config.name,
     output_rate |-> config.output_rate,
     base_fee |-> config.base_fee]

\* filter(|p| seen.insert(p.name.clone())).map(SelectedProvider::from): the
\* first entry of each name is kept.
RECURSIVE unique_by_name(_, _)
unique_by_name(s, seen) ==
    IF s = <<>>
    THEN <<>>
    ELSE IF Head(s).name \in seen
    THEN unique_by_name(Tail(s), seen)
    ELSE <<SelectedProvider_from(Head(s))>>
         \o unique_by_name(Tail(s), seen \cup {Head(s).name})

\* Router::select_candidates on a router with the given providers and rules.
select_candidates(provs, rules, model, policy_name, prompt) ==
    LET policy == find_policy(rules, policy_name, prompt)
        by_model == retain(provs, {p \in elements(provs) : supports(p, model)})
        constrained ==
            IF policy # None
            THEN apply_policy_constraints(by_model,
                                          CHOOSE r \in policy : TRUE, model)
            ELSE Ok(by_model)
    IN  IF by_model = <<>>
        THEN Err(NoProviders(model))
        ELSE IF ~constrained.ok
        THEN constrained
        ELSE LET unique == unique_by_name(sort_by_key(constrained.value), {})
             IN  IF unique = <<>> THEN Err(NoPolicyMatch) ELSE Ok(unique)

\* Router::select: select_candidates(..).map(|mut v| v.remove(0))
select(provs, rules, model, policy_name, prompt) ==
    LET all == select_candidates(provs, rules, model, policy_name, prompt)
    IN  IF all.ok THEN Ok(Head(all.value)) ELSE all

\* The configurations the router is built from.
ProviderNames == {"a", "b"}
Models == {"m1", "m2"}
ModelLists == {<<>>, <<"m1">>}
Pricings == {[output_rate |-> 1, base_fee |-> 0],
             [output_rate |-> 1, base_fee |-> 1],
             [output_rate |-> 2, base_fee |-> 0]}

ProviderConfigs ==
    {[name |-> n, models |-> ms,
      output_rate |-> pr.output_rate, base_fee |-> pr.base_fee] :
        n \in ProviderNames, ms \in ModelLists, pr \in Pricings}

PolicyRules ==
    {[name |-> "p", allowed_models |-> <<"m1">>,
      max_sats_per_1k_output |-> None,
      keywords |-> << <<"A", "b">> >>],
     [name |-> "q", allowed_models |-> <<>>,
      max_sats_per_1k_output |-> Some(1),
      keywords |-> << <<"c">>, <<"B">> >>]}

\* All sequences of at most n elements of S.
RECURSIVE SeqsUpTo(_, _)
SeqsUpTo(S, n) ==
    IF n = 0
    THEN {<<>>}
    ELSE LET shorter == SeqsUpTo(S, n - 1)
         IN  shorter \cup {Append(s, x) : s \in shorter, x \in S}

\* The values of the x-arbstr-policy header: absent, a configured name, a
\* name no rule has.
PolicyHeaders == {None, Some("p"), Some("other")}

\* The message lists of the requests.
MessageLists ==
    {<< [role |-> "system", content |-> <<"c">>] >>,
     << [role |-> "user", content |-> <<"c">>] >>,
     << [role |-> "user", content |-> <<"c">>],
        [role |-> "user", content |-> <<"x", "a", "B">>],
        [role |-> "assistant", content |-> <<"c">>] >>}

\* A request is routed: the streaming path (execute_request) asks select,
\* the non-streaming path asks select_candidates, each with the header's
\* policy name and the request's user_prompt.
RouterCall(method, model, policy_name, messages) ==
    /\ routed = None
    /\ routed' =
         Some([method |-> method,
               model |-> model,
               policy_name |-> policy_name,
               messages |-> messages,
               policy |-> find_policy(policy_rules, policy_name,
                                      user_prompt(messages)),
               result |->
                 IF method = "select"
                 THEN select(providers, policy_rules, model, policy_name,
                             user_prompt(messages))
                 ELSE select_candidates(providers, policy_rules, model,
                                        policy_name, user_prompt(messages))])
    /\ UNCHANGED <<providers, policy_rules>>
    /\ UNCHANGED <<health_response, sse_vars, http_vars, ledger_vars>>
    /\ UNCHANGED <<request_vars, now>>
    /\ UNCHANGED breaker_vars
    /\ UNCHANGED gate_vars

Select(model, policy_name, messages) ==
    RouterCall("select", model, policy_name, messages)

SelectCandidates(model, policy_name, messages) ==
    RouterCall("select_candidates", model, policy_name, messages)

\* ---- POST /v1/chat/completions at the HTTP layer --------------------------

\* The values Uuid::new_v4() can return.
Uuids == 1..MaxUuids

\* What the body of a POST is to the Json extractor: a ChatCompletionRequest,
\* text that is not JSON, or JSON that is not a ChatCompletionRequest.
Bodies == {"json", "malformed", "invalid"}

PostRequests ==
    {[body |-> b, stream |-> s, stream_options |-> so] :
        b \in Bodies, s \in BOOLEAN, so \in StreamOptionsValues}

\* What the handler's routing and dispatch come to.  The timeout is of the
\* non-streaming path only.
HandlerOutcomes(stream) ==
    {[kind |-> "success", provider |-> Some(p)] : p \in Providers}
    \cup {[kind |-> "upstream_error", provider |-> Some(p)] : p \in Providers}
    \cup {[kind |-> "routing_error", provider |-> None]}
    \cup (IF stream THEN {} ELSE {[kind |-> "timeout", provider |-> None]})

\* The headers of a response nobody attached anything to.
NoHeaders ==
    [request_id |-> None, streaming |-> None, latency |-> FALSE,
     provider |-> None]

\* The status of the response of each outcome: the upstream's 200,
\* Error::Provider as 502, the routing errors as 400, the timeout as 504.
outcome_status(kind) ==
    CASE kind = "success" -> 200
      [] kind = "upstream_error" -> 502
      [] kind = "routing_error" -> 400
      [] kind = "timeout" -> 504

\* attach_arbstr_headers: the request id always, the streaming flag or the
\* latency, the provider when known.
attach_arbstr_headers(resp, request_id_str, provider, streaming) ==
    [resp EXCEPT !.headers =
        [request_id |-> Some(request_id_str),
         streaming |-> IF streaming THEN Some("true") ELSE None,
         latency |-> ~streaming,
         provider |-> provider]]

\* JsonRejection::into_response: 400 for a syntax error, 422 for a body that
\* does not deserialize; the handler body never runs.
JsonRejection_into_response(body) ==
    [status |-> IF body = "malformed" THEN 400 ELSE 422,
     headers |-> NoHeaders]

\* A POST /v1/chat/completions arrives.
ReceivePost(req) ==
    /\ http_request = None
    /\ http_request' = Some(req)
    /\ UNCHANGED <<request_id, http_response>>
    /\ UNCHANGED <<health_response, sse_vars, router_vars, ledger_vars>>
    /\ UNCHANGED <<request_vars, now>>
    /\ UNCHANGED breaker_vars
    /\ UNCHANGED gate_vars

\* inject_request_id: the middleware stores a fresh RequestId in the
\* request's extensions and runs the rest of the stack; it returns the
\* response it gets as it is.
inject_request_id(u) ==
    /\ http_request # None
    /\ request_id = None
    /\ request_id' = Some(u)
    /\ UNCHANGED <<http_request, http_response>>
    /\ UNCHANGED <<health_response, sse_vars, router_vars, ledger_vars>>
    /\ UNCHANGED <<request_vars, now>>
    /\ UNCHANGED breaker_vars
    /\ UNCHANGED gate_vars

\* The Json extractor of chat_completions rejects the body: the rejection is
\* the response.
JsonRejects ==
    /\ request_id # None
    /\ http_response = None
    /\ \E req \in http_request :
          /\ req.body # "json"
          /\ http_response' = Some(JsonRejection_into_response(req.body))
    /\ UNCHANGED <<http_request, request_id>>
    /\ UNCHANGED <<health_response, sse_vars, router_vars, ledger_vars>>
    /\ UNCHANGED <<request_vars, now>>
    /\ UNCHANGED breaker_vars
    /\ UNCHANGED gate_vars

\* chat_completions runs and returns the response of one of its arms, each
\* of which attaches the headers with the correlation id of the extension.
ChatCompletions(outcome) ==
    /\ http_response = None
    /\ \E req \in http_request, id \in request_id :
          /\ req.body = "json"
          /\ outcome \in HandlerOutcomes(req.stream)
          /\ http_response' =
               Some(attach_arbstr_headers(
                        [status |-> outcome_status(outcome.kind),
                         headers |-> NoHeaders],
                        id, outcome.provider, req.stream))
    /\ UNCHANGED <<http_request, request_id>>
    /\ UNCHANGED <<health_response, sse_vars, router_vars, ledger_vars>>
    /\ UNCHANGED <<request_vars, now>>
    /\ UNCHANGED breaker_vars
    /\ UNCHANGED gate_vars

\* The handler modelled step by step has built its response: it attaches the
\* headers with the correlation id, as every arm does, and the response
\* leaves through the middleware unchanged.
ResponseLeaves ==
    /\ rpc = "responded"
    /\ http_response = None
    /\ \E r \in response, id \in correlation_id :
          http_response' =
             Some(attach_arbstr_headers(
                      [status |-> r.status, headers |-> NoHeaders],
                      id, r.provider, is_streaming))
    /\ UNCHANGED <<http_request, request_id>>
    /\ UNCHANGED <<health_response, sse_vars, router_vars, ledger_vars>>
    /\ UNCHANGED <<request_vars, now>>
    /\ UNCHANGED breaker_vars
    /\ UNCHANGED gate_vars

\* ---- actual_cost_sats ----------------------------------------------------

\* An f64 is modelled by the rational it stands for, num / den: the
\* conversions of the integers and the sums are exact, the quotient keeps
\* its fraction.
f64_from(n) == [num |-> n, den |-> 1]
f64_add(x, y) == [num |-> x.num * y.den + y.num * x.den, den |-> x.den * y.den]
f64_mul(x, y) == [num |-> x.num * y.num, den |-> x.den * y.den]
f64_div(x, y) == [num |-> x.num * y.den, den |-> x.den * y.num]

\* A cost computed in whole sats: the quotient by 1000 is an integer
\* division.
actual_cost_sats_whole(input_tokens, output_tokens, input_rate, output_rate, base_fee) ==
    f64_from((input_tokens * input_rate + output_tokens * output_rate)
                \div 1000 + base_fee)

\* actual_cost_sats
actual_cost_sats(input_tokens, output_tokens, input_rate, output_rate, base_fee) ==
    LET input_cost == f64_mul(f64_from(input_tokens), f64_from(input_rate))
        output_cost == f64_mul(f64_from(output_tokens), f64_from(output_rate))
    IN  f64_add(f64_div(f64_add(input_cost, output_cost), f64_from(1000)),
                f64_from(base_fee))

\* The token counts and rates of the calls: those of the unit tests and a
\* few beside them.
TokenCounts == {0, 5, 10, 100, 200, 1000}
InputRates == {0, 5, 10}
OutputRates == {15, 30}
BaseFees == {0, 1, 5}

CostCalls ==
    {[input_tokens |-> i, output_tokens |-> o, input_rate |-> ir,
      output_rate |-> r, base_fee |-> bf, cost |-> None] :
        i \in TokenCounts, o \in TokenCounts, ir \in InputRates,
        r \in OutputRates, bf \in BaseFees}

\* handle_non_streaming_response computes the cost of the completed request
\* from the usage the provider reported and the provider's rates.
ActualCost ==
    /\ \E c \in cost_call :
          /\ c.cost = None
          /\ cost_call' =
               Some([c EXCEPT !.cost =
                       Some(actual_cost_sats(c.input_tokens, c.output_tokens,
                                             c.input_rate, c.output_rate,
                                             c.base_fee))])
    /\ UNCHANGED <<requests_table, log_tasks, rows_affected>>
    /\ UNCHANGED <<health_response, sse_vars, router_vars, http_vars>>
    /\ UNCHANGED <<request_vars, now>>
    /\ UNCHANGED breaker_vars
    /\ UNCHANGED gate_vars

\* ---- request log writes ---------------------------------------------------

\* The row INSERT INTO requests stores for a RequestLog: the statement names
\* no stream_duration_ms, which stays NULL.
row_of(log) ==
    [correlation_id |-> log.correlation_id,
     input_tokens |-> log.input_tokens, output_tokens |-> log.output_tokens,
     cost_sats |-> log.cost_sats, stream_duration_ms |-> None,
     success |-> log.success, error_status |-> log.error_status,
     error_message |-> log.error_message]

\* The row UPDATE requests SET ... leaves of a row it matches.
updated_row(row, args) ==
    [row EXCEPT !.input_tokens = args.input_tokens,
                !.output_tokens = args.output_tokens,
                !.cost_sats = args.cost_sats,
                !.stream_duration_ms = Some(args.stream_duration_ms),
                !.success = args.success,
                !.error_message = args.error_message]

\* An update that writes to every row.
update_where_any(table, args) ==
    [i \in DOMAIN table |-> updated_row(table[i], args)]

\* UPDATE requests SET ... WHERE correlation_id = ?
update_where(table, args) ==
    [i \in DOMAIN table |->
        IF table[i].correlation_id = args.correlation_id
        THEN updated_row(table[i], args)
        ELSE table[i]]

\* rows_affected() of that statement.
matching_rows(table, args) ==
    Cardinality({i \in DOMAIN table :
                    table[i].correlation_id = args.correlation_id})

\* The RequestLog the streaming path builds once the response headers are in:
\* no figures yet on success, the status and message on an error.
StreamLogs(id) ==
    {[correlation_id |-> id, input_tokens |-> None, output_tokens |-> None,
      cost_sats |-> None, success |-> TRUE, error_status |-> None,
      error_message |-> None],
     [correlation_id |-> id, input_tokens |-> None, output_tokens |-> None,
      cost_sats |-> None, success |-> FALSE, error_status |-> Some(502),
      error_message |-> Some("Provider returned 502")]}

\* The figures known when a stream has ended: usage and cost of a completed
\* stream, or the reason of an interrupted one.
StreamCompletions(id) ==
    {[correlation_id |-> id, input_tokens |-> Some(10),
      output_tokens |-> Some(5),
      cost_sats |-> Some(actual_cost_sats(10, 5, 5, 15, 0)),
      stream_duration_ms |-> d, success |-> TRUE, error_message |-> None] :
        d \in {7, 1200}}
    \cup
    {[correlation_id |-> id, input_tokens |-> None, output_tokens |-> None,
      cost_sats |-> None, stream_duration_ms |-> 7, success |-> FALSE,
      error_message |-> Some("client_disconnected")]}

\* The rows of earlier requests, whose streams have been accounted for.
EarlierTables ==
    {<<>>} \cup
    {<<updated_row(row_of(log), args)>> :
        log \in StreamLogs(Uuid_to_string(1)),
        args \in StreamCompletions(Uuid_to_string(1))}

\* The correlation ids of the rows and of the captured arguments.
known_ids ==
    {requests_table[i].correlation_id : i \in DOMAIN requests_table}
    \cup {t.args.correlation_id : t \in log_tasks["insert"]}

\* spawn_log_write at dispatch time: the task is detached with the log it
\* owns, nothing is written yet.  The correlation id is a fresh UUID.
spawn_log_write(log) ==
    /\ log_tasks["insert"] = None
    /\ log.correlation_id \notin known_ids
    /\ log_tasks' = [log_tasks EXCEPT
                       !["insert"] = Some([args |-> log, state |-> "spawned"])]
    /\ UNCHANGED <<cost_call, requests_table, rows_affected>>
    /\ UNCHANGED <<health_response, sse_vars, router_vars, http_vars>>
    /\ UNCHANGED <<request_vars, now>>
    /\ UNCHANGED breaker_vars
    /\ UNCHANGED gate_vars

\* The detached task of spawn_log_write runs RequestLog::insert.
RequestLog_insert ==
    /\ \E t \in log_tasks["insert"] :
          /\ t.state = "spawned"
          /\ requests_table' = Append(requests_table, row_of(t.args))
          /\ log_tasks' = [log_tasks EXCEPT
                             !["insert"] = Some([t EXCEPT !.state = "done"])]
    /\ UNCHANGED <<cost_call, rows_affected>>
    /\ UNCHANGED <<health_response, sse_vars, router_vars, http_vars>>
    /\ UNCHANGED <<request_vars, now>>
    /\ UNCHANGED breaker_vars
    /\ UNCHANGED gate_vars

\* spawn_stream_completion_update: the task is detached with its arguments.
\* The call comes after the spawn_log_write of the request (the stream ends
\* after its dispatch); its correlation id is the request's, or one no row
\* was ever written for.
spawn_stream_completion_update(args) ==
    /\ log_tasks["update"] = None
    /\ \E t \in log_tasks["insert"] :
          \/ args.correlation_id = t.args.correlation_id
          \/ args.correlation_id \notin known_ids
    /\ log_tasks' = [log_tasks EXCEPT
                       !["update"] = Some([args |-> args, state |-> "spawned"])]
    /\ UNCHANGED <<cost_call, requests_table, rows_affected>>
    /\ UNCHANGED <<health_response, sse_vars, router_vars, http_vars>>
    /\ UNCHANGED <<request_vars, now>>
    /\ UNCHANGED breaker_vars
    /\ UNCHANGED gate_vars

\* The detached task of spawn_stream_completion_update runs
\* update_stream_completion and gets its rows_affected().
update_stream_completion ==
    /\ \E t \in log_tasks["update"] :
          /\ t.state = "spawned"
          /\ requests_table' = update_where(requests_table, t.args)
          /\ rows_affected' = Some(matching_rows(requests_table, t.args))
          /\ log_tasks' = [log_tasks EXCEPT
                             !["update"] = Some([t EXCEPT !.state = "done"])]
    /\ UNCHANGED cost_call
    /\ UNCHANGED <<health_response, sse_vars, router_vars, http_vars>>
    /\ UNCHANGED <<request_vars, now>>
    /\ UNCHANGED breaker_vars
    /\ UNCHANGED gate_vars

\* ---- specification ------------------------------------------------------

\* CircuitBreakerRegistry::new: a Closed breaker, nobody calling.
BreakerInit ==
    /\ inner = CircuitBreakerInner_new
    /\ probe_watch = "Pending"
    /\ rx = [c \in Callers |-> "none"]
    /\ pc = [c \in Callers |-> "idle"]
    /\ error_info = [c \in Callers |-> NoInfo]
    /\ heard = [c \in Callers |-> <<>>]
    /\ awaited = [c \in Callers |-> {}]

Init ==
    /\ BreakerInit
    /\ now = 0
    /\ NoRequest
    /\ SideIdle

Next ==
    \/ \E c \in Callers : AcquirePermit(c)
    \/ \E c \in Callers : WaitResume(c)
    \/ \E c \in Callers : ReturnErr(c)
    \/ \E c \in Callers : NormalSuccess(c)
    \/ \E c \in Callers, e \in FailureErrors : NormalFailure(c, e)
    \/ \E c \in Callers : NormalRelease(c)
    \/ \E c \in Callers : ProbeSuccess(c)
    \/ \E c \in Callers, e \in ProbeErrors : ProbeFailure(c, e)
    \/ \E c \in Callers : ProbeDrop(c)
    \/ \E d \in AdvanceSteps : Advance(d)

Spec == Init /\ [][Next]_vars

\* A probe holder's request finishes or is cancelled: its guard is resolved
\* or dropped.
ProbeResolve(c) ==
    \/ ProbeSuccess(c)
    \/ \E e \in ProbeErrors : ProbeFailure(c, e)
    \/ ProbeDrop(c)

\* The same steps, taken by the callers of LiveCallers only.
LiveNext ==
    \/ \E c \in LiveCallers : AcquirePermit(c)
    \/ \E c \in LiveCallers : WaitResume(c)
    \/ \E c \in LiveCallers : ReturnErr(c)
    \/ \E c \in LiveCallers : NormalSuccess(c)
    \/ \E c \in LiveCallers, e \in FailureErrors : NormalFailure(c, e)
    \/ \E c \in LiveCallers : NormalRelease(c)
    \/ \E c \in LiveCallers : ProbeSuccess(c)
    \/ \E c \in LiveCallers, e \in ProbeErrors : ProbeFailure(c, e)
    \/ \E c \in LiveCallers : ProbeDrop(c)
    \/ \E d \in AdvanceSteps : Advance(d)

\* While a Probe permit is held, some holder's request eventually finishes or
\* is cancelled (its guard is resolved or dropped).
FairSpec ==
    /\ Init
    /\ [][LiveNext]_vars
    /\ WF_vars(\E c \in LiveCallers : ProbeResolve(c))

\* The breaker under a scheduler that polls every task it has woken: a caller
\* whose rx.changed() has completed is resumed, and every probe holder's
\* request finishes or is cancelled.
WaitSpec ==
    /\ Init
    /\ [][Next]_vars
    /\ \A c \in Callers : WF_vars(ProbeResolve(c))
    /\ \A c \in Callers : WF_vars(WaitResume(c))

\* One request, streaming or not, with any candidate list the router can
\* return, handled by chat_completions.
RequestInit ==
    /\ BreakerInit
    /\ now = 0
    /\ is_streaming \in BOOLEAN
    /\ candidates \in CandidateLists
    /\ rpc = "start"
    /\ retry = NoRetry
    /\ due = 0
    /\ deadline = 0
    /\ attempts = <<>>
    /\ retry_result = None
    /\ response = None
    /\ log_entry = None
    /\ dispatched = <<>>
    /\ breakers = [p \in Providers |-> CircuitBreakerInner_new]
    /\ SideIdle

RequestNext ==
    \/ HandlerBegin
    \/ \E lat \in Latencies : SendRequest(lat)
    \/ \E o \in UpstreamOutcomes : UpstreamResponds(o)
    \/ BackoffElapsed
    \/ TimePasses
    \/ DeadlineExpires
    \/ HandlerResponds

RequestSpec == RequestInit /\ [][RequestNext]_vars

\* The server with its registry: other requests and the clock act on the
\* breakers, one chat-completion request is handled, /health is asked.
ServerInit == RequestInit

ServerNext ==
    \/ \E p \in Providers, e \in FailureErrors : OtherRequestFails(p, e)
    \/ \E d \in AdvanceSteps : ClockAdvances(d)
    \/ \E p \in Providers : RegistryAcquire(p)
    \/ HandlerBegin
    \/ SendRequest(0)
    \/ \E o \in ServerOutcomes : UpstreamResponds(o)
    \/ BackoffElapsed
    \/ TimePasses
    \/ HandlerResponds
    \/ GetHealth

ServerSpec == ServerInit /\ [][ServerNext]_vars

\* wrap_sse_stream around an upstream that sends any of the byte sequences
\* of SseContents(MaxRecords) in chunks of any size up to MaxChunk, or all
\* that is left at once.
SseInit ==
    /\ BreakerInit
    /\ now = 0
    /\ NoRequest
    /\ HealthIdle
    /\ sse_source \in SseContents(MaxRecords)
    /\ sse_pos = 0
    /\ sse_phase = "streaming"
    /\ observer = Some(SseObserver_with_handle)
    /\ handle = None
    /\ forwarded = <<>>
    /\ last_yield = None
    /\ handle_writes = 0
    /\ discarded = FALSE
    /\ RouterIdle
    /\ HttpIdle
    /\ LedgerIdle

SseNext ==
    \/ \E k \in 1..MaxChunk : SsePoll(k)
    \/ SsePollRest
    \/ SseUpstreamError
    \/ SseEnd
    \/ SseDrop

SseSpec == SseInit /\ [][SseNext]_vars

\* A router built from any list of at most MaxProviders provider
\* configurations and at most MaxPolicies policy rules, asked once.
RouterInit ==
    /\ BreakerInit
    /\ now = 0
    /\ NoRequest
    /\ HealthIdle
    /\ SseIdle
    /\ HttpIdle
    /\ LedgerIdle
    /\ providers \in SeqsUpTo(ProviderConfigs, MaxProviders)
    /\ policy_rules \in SeqsUpTo(PolicyRules, MaxPolicies)
    /\ routed = None

RouterNext ==
    \/ \E model \in Models, policy_name \in PolicyHeaders,
          messages \in MessageLists :
          Select(model, policy_name, messages)
    \/ \E model \in Models, policy_name \in PolicyHeaders,
          messages \in MessageLists :
          SelectCandidates(model, policy_name, messages)

RouterSpec == RouterInit /\ [][RouterNext]_vars

\* The stack of create_router in front of chat_completions, one POST.
EndpointInit ==
    /\ BreakerInit
    /\ now = 0
    /\ NoRequest
    /\ SideIdle

EndpointNext ==
    \/ \E req \in PostRequests : ReceivePost(req)
    \/ \E u \in Uuids : inject_request_id(u)
    \/ JsonRejects
    \/ \E stream \in BOOLEAN :
          \E outcome \in HandlerOutcomes(stream) : ChatCompletions(outcome)

EndpointSpec == EndpointInit /\ [][EndpointNext]_vars

\* One well-formed POST with its RequestId, handled by chat_completions step
\* by step.
TracedInit ==
    /\ BreakerInit
    /\ now = 0
    /\ is_streaming \in BOOLEAN
    /\ candidates \in CandidateLists
    /\ rpc = "start"
    /\ retry = NoRetry
    /\ due = 0
    /\ deadline = 0
    /\ attempts = <<>>
    /\ retry_result = None
    /\ response = None
    /\ log_entry = None
    /\ dispatched = <<>>
    /\ breakers = [p \in Providers |-> CircuitBreakerInner_new]
    /\ HealthIdle
    /\ SseIdle
    /\ RouterIdle
    /\ LedgerIdle
    /\ http_request \in {Some(req) : req \in {r \in PostRequests :
                                 r.body = "json" /\ r.stream = is_streaming}}
    /\ request_id \in {Some(u) : u \in Uuids}
    /\ http_response = None

TracedNext ==
    \/ HandlerBegin
    \/ \E lat \in {0, MaxLatency} : SendRequest(lat)
    \/ \E o \in ServerOutcomes : UpstreamResponds(o)
    \/ BackoffElapsed
    \/ TimePasses
    \/ DeadlineExpires
    \/ HandlerResponds
    \/ ResponseLeaves

TracedSpec == TracedInit /\ [][TracedNext]_vars

\* The cost of one completed request, for any usage and rates of CostCalls.
CostInit ==
    /\ BreakerInit
    /\ now = 0
    /\ NoRequest
    /\ HealthIdle
    /\ SseIdle
    /\ RouterIdle
    /\ HttpIdle
    /\ cost_call \in {Some(c) : c \in CostCalls}
    /\ requests_table = <<>>
    /\ log_tasks = [t \in {"insert", "update"} |-> None]
    /\ rows_affected = None

CostNext == ActualCost

CostSpec == CostInit /\ [][CostNext]_vars

\* The two writes of one streaming request, on a table that may hold the row
\* of an earlier request.
LogInit ==
    /\ BreakerInit
    /\ now = 0
    /\ NoRequest
    /\ HealthIdle
    /\ SseIdle
    /\ RouterIdle
    /\ HttpIdle
    /\ cost_call = None
    /\ requests_table \in EarlierTables
    /\ log_tasks = [t \in {"insert", "update"} |-> None]
    /\ rows_affected = None

LogNext ==
    \/ \E u \in Uuids : \E log \in StreamLogs(Uuid_to_string(u)) :
          spawn_log_write(log)
    \/ RequestLog_insert
    \/ \E u \in Uuids : \E args \in StreamCompletions(Uuid_to_string(u)) :
          spawn_stream_completion_update(args)
    \/ update_stream_completion

LogSpec == LogInit /\ [][LogNext]_vars

TypeOK ==
    /\ inner.state \in {"Closed", "Open", "HalfOpen"}
    /\ inner.failure_count \in 0..MaxFailures
    /\ inner.trip_count \in 0..MaxTrips
    /\ inner.probe_in_flight \in BOOLEAN
    /\ probe_watch \in {"Pending", "Success", "Failed"}
    /\ now \in 0..MaxTime

\* ---- C1 -----------------------------------------------------------------
\* C1: at most one caller at a time holds a Probe permit that is not yet
\* resolved, and a caller arriving while the breaker is HalfOpen with a probe
\* in flight is made to wait instead of being given a permit.
C1_SingleProbePermit ==
    /\ [](Cardinality({c \in Callers : pc[c] = "probe"}) <= 1)
    /\ [][\A c \in Callers :
            (/\ pc[c] = "idle"
             /\ pc'[c] # "idle"
             /\ inner.state = "HalfOpen"
             /\ inner.probe_in_flight) => pc'[c] = "waiting"]_vars

\* ---- C2 -----------------------------------------------------------------
\* C2: a Closed breaker becomes Open exactly in the step that records the
\* third consecutive failure; a recorded success puts the counter back to 0.
C2_TripOnThirdFailure ==
    [][inner.state = "Closed" =>
         /\ (inner'.state = "Open") <=>
               /\ \E c \in Callers, e \in FailureErrors : NormalFailure(c, e)
               /\ inner.failure_count + 1 = FAILURE_THRESHOLD
         /\ (\E c \in Callers : NormalSuccess(c)) => inner'.failure_count = 0]_vars

\* ---- C3 -----------------------------------------------------------------
\* C3: an acquire_permit on an Open breaker is rejected with the last error
\* and the trip count, leaving the breaker Open, while fewer than
\* OPEN_DURATION seconds have passed since opened_at; once they have passed it
\* moves the breaker to HalfOpen and returns the Probe permit.
C3_OpenRejectsUntilTimeout ==
    [][\A c \in Callers :
         (pc[c] = "idle" /\ pc'[c] # "idle" /\ inner.state = "Open") =>
            IF \E oa \in inner.opened_at : now - oa < OPEN_DURATION
            THEN /\ pc'[c] = "rejected"
                 /\ inner'.state = "Open"
                 /\ error_info'[c] = [reason |-> Reason(inner.last_error),
                                      trip_count |-> inner.trip_count]
            ELSE /\ pc'[c] = "probe"
                 /\ inner'.state = "HalfOpen"]_vars

\* One caller was rejected by the Open breaker and, after the timeout,
\* another one was given the Probe permit.
C3_Witness ==
    /\ inner.state = "HalfOpen"
    /\ \E c, d \in Callers :
          /\ pc[c] = "probe"
          /\ pc[d] = "rejected"
          /\ error_info[d].trip_count = inner.trip_count

\* ---- C4 -----------------------------------------------------------------
\* C4: guard.success() on a HalfOpen breaker leaves it Closed with
\* failure_count 0 and probe_in_flight false, and an acquire_permit on a
\* Closed breaker returns Normal.
C4_ProbeSuccessCloses ==
    [][/\ \A c \in Callers :
            (ProbeSuccess(c) /\ inner.state = "HalfOpen") =>
               /\ inner'.state = "Closed"
               /\ inner'.failure_count = 0
               /\ ~inner'.probe_in_flight
       /\ \A c \in Callers :
            (pc[c] = "idle" /\ pc'[c] # "idle" /\ inner.state = "Closed") =>
               (pc'[c] = "normal" /\ inner' = inner)]_vars

\* The breaker has tripped, has been closed again by a probe and a caller
\* holds a Normal permit obtained at least OPEN_DURATION after the start.
C4_Witness ==
    /\ inner.state = "Closed"
    /\ inner.trip_count >= 1
    /\ inner.failure_count = 0
    /\ ~inner.probe_in_flight
    /\ now >= OPEN_DURATION
    /\ \A c \in Callers : pc[c] = "normal"

\* ---- C5 -----------------------------------------------------------------
\* C5: a probe failure (guard.failure() or an unresolved drop) on a HalfOpen
\* breaker leaves it Open with opened_at equal to the time of the failure and
\* probe_in_flight false; permits on the Open breaker are rejected until
\* OPEN_DURATION has passed since that opened_at and the next one is a Probe.
C5_ProbeFailureReopens ==
    [][/\ \A c \in Callers :
            (/\ inner.state = "HalfOpen"
             /\ \/ \E e \in ProbeErrors : ProbeFailure(c, e)
                \/ ProbeDrop(c)) =>
               /\ inner'.state = "Open"
               /\ inner'.opened_at = Some(now)
               /\ ~inner'.probe_in_flight
       /\ \A c \in Callers :
            (pc[c] = "idle" /\ pc'[c] # "idle" /\ inner.state = "Open") =>
               /\ (pc'[c] = "rejected") <=>
                     (\E oa \in inner.opened_at : now - oa < OPEN_DURATION)
               /\ (pc'[c] = "probe") <=>
                     (\E oa \in inner.opened_at : now - oa >= OPEN_DURATION)]_vars

\* After a probe failure one caller was rejected (its reason is the probe's
\* error) and a later caller got a new Probe permit, the failed probe's error
\* still being the last one.
C5_Witness ==
    /\ inner.state = "HalfOpen"
    /\ inner.last_error \subseteq (ProbeErrors \cup {DroppedError})
    /\ inner.last_error # None
    /\ \E c, d \in Callers :
          /\ pc[c] = "probe"
          /\ pc[d] = "rejected"
          /\ error_info[d].reason = Reason(inner.last_error)

\* ---- C9 -----------------------------------------------------------------
\* C9 (as stated): failure_count >= FAILURE_THRESHOLD implies that the state
\* is Open and opened_at is set.
C9_ThresholdImpliesOpen ==
    inner.failure_count >= FAILURE_THRESHOLD =>
        (inner.state = "Open" /\ inner.opened_at # None)

\* C9 (amended): failure_count >= FAILURE_THRESHOLD implies that the state is
\* Open or HalfOpen (the counter survives the lazy Open -> HalfOpen step) and
\* opened_at is set.
C9_ThresholdImpliesNotClosed ==
    inner.failure_count >= FAILURE_THRESHOLD =>
        (inner.state \in {"Open", "HalfOpen"} /\ inner.opened_at # None)

\* The tripped breaker has timed out into HalfOpen with its counter intact.
C9_Witness ==
    /\ inner.failure_count >= FAILURE_THRESHOLD
    /\ inner.state = "HalfOpen"
    /\ inner.opened_at # None

\* ---- C10 ----------------------------------------------------------------
\* C10: probe_in_flight is true only while the state is HalfOpen.
C10_ProbeFlagOnlyHalfOpen ==
    inner.probe_in_flight => inner.state = "HalfOpen"

\* ---- C11 ----------------------------------------------------------------
\* C11: whenever the breaker is Open, opened_at is set, so the timeout test
\* of check_state has a timestamp to compare with.
C11_OpenHasTimestamp ==
    inner.state = "Open" => inner.opened_at # None

\* The breaker was opened by record_failure and its timestamp is old enough
\* for the next permit check to move it to HalfOpen.
C11_Witness ==
    /\ inner.state = "Open"
    /\ inner.last_error \subseteq FailureErrors
    /\ \E oa \in inner.opened_at : now - oa >= OPEN_DURATION

\* ---- C6 -----------------------------------------------------------------
\* C6: a caller that found a probe in flight does not return before that
\* probe is resolved, and then returns Normal if the probe holder recorded
\* success and CircuitOpenError if it recorded failure.
C6_WaiterFollowsProbe ==
    [][\A c \in Callers :
         (pc[c] = "waiting" /\ pc'[c] # "waiting") =>
            /\ awaited[c] = {}
            /\ heard[c] # <<>>
            /\ (pc'[c] = "normal") <=> (heard[c][1] = "Success")
            /\ (pc'[c] = "rejected") <=> (heard[c][1] = "Failed")]_vars

\* ---- C7 -----------------------------------------------------------------
\* C7: a waiter is woken and decided only by a result published after it
\* subscribed: it stays suspended while none has been published, whatever
\* value an earlier cycle left in the channel, and what it returns is the
\* latest result published since its subscription.
C7_NoStaleResult ==
    [][\A c \in Callers :
         (pc[c] = "waiting" /\ pc'[c] # "waiting") =>
            /\ heard[c] # <<>>
            /\ (pc'[c] = "normal") <=> (heard[c][Len(heard[c])] = "Success")
            /\ (pc'[c] = "rejected") <=> (heard[c][Len(heard[c])] = "Failed")]_vars

\* A waiter of a later cycle is suspended although the channel still holds
\* the Success of an earlier cycle.
C7_Witness ==
    \E c \in Callers :
       /\ pc[c] = "waiting"
       /\ rx[c] = "seen"
       /\ heard[c] = <<>>
       /\ probe_watch = "Success"
       /\ inner.state = "HalfOpen"

\* ---- C8 -----------------------------------------------------------------
\* C8: success() and failure() record their outcome and the drop that follows
\* records nothing more; a guard dropped unresolved records a probe failure;
\* hence, when probe holders finish or are cancelled, a HalfOpen breaker
\* eventually leaves HalfOpen and probe_in_flight does not stay true.
C8_GuardResolvesOnce ==
    /\ [][\A c \in Callers :
            /\ ProbeSuccess(c) =>
                  /\ inner'.state = "Closed"
                  /\ ~inner'.probe_in_flight
                  /\ inner'.last_error = inner.last_error
                  /\ inner'.opened_at = inner.opened_at
            /\ \A e \in ProbeErrors : ProbeFailure(c, e) =>
                  /\ inner'.state = "Open"
                  /\ ~inner'.probe_in_flight
                  /\ inner'.last_error = Some(e)
            /\ ProbeDrop(c) =>
                  /\ inner'.state = "Open"
                  /\ ~inner'.probe_in_flight
                  /\ inner'.last_error = Some(DroppedError)]_vars
    /\ (inner.state = "HalfOpen" \/ inner.probe_in_flight)
          ~> (inner.state # "HalfOpen" /\ ~inner.probe_in_flight)

\* A guard was dropped unresolved and the breaker is Open again, no probe in
\* flight and nobody holding a Probe permit.
C8_Witness ==
    /\ inner.state = "Open"
    /\ inner.last_error = Some(DroppedError)
    /\ ~inner.probe_in_flight
    /\ \A c \in Callers : pc[c] # "probe"

\* ---- history of a request, as the claims below read it -------------------

\* The dispatches that have ended in a failure, as (provider, status) records
\* in dispatch order.
RECURSIVE FailedRecords(_)
FailedRecords(ds) ==
    IF ds = <<>>
    THEN <<>>
    ELSE LET d == ds[Len(ds)]
             before == FailedRecords(SubSeq(ds, 1, Len(ds) - 1))
         IN  IF d.kind # "pending" /\ d.status_code # 200
             THEN Append(before, [provider_name |-> d.provider,
                                  status_code |-> d.status_code])
             ELSE before

\* The number of dispatches that went to provider p.
DispatchesTo(p) ==
    Cardinality({i \in 1..Len(dispatched) : dispatched[i].provider = p})

\* ---- C12 ----------------------------------------------------------------
\* C12: one call of retry_with_fallback dispatches to the first candidate at
\* most 3 times, to the second at most once and only as the fourth dispatch,
\* after three failures of the first with retryable statuses, and to no other
\* candidate; it ends after at most 4 dispatches and returns the first
\* success or the last error.
C12_AtMostFourDispatches ==
    ~is_streaming =>
        /\ Len(dispatched) <= 4
        /\ \A i \in 1..Len(dispatched) :
              /\ i <= 3 => dispatched[i].provider = candidates[1]
              /\ i = 4 =>
                    /\ Len(candidates) >= 2
                    /\ dispatched[i].provider = candidates[2]
                    /\ \A j \in 1..3 :
                          dispatched[j].status_code \in {500, 502, 503, 504}
              /\ i < Len(dispatched) =>
                    dispatched[i].status_code \notin {0, 200}
        /\ \A res \in retry_result :
              LET last == dispatched[Len(dispatched)]
              IN  /\ res.provider_name = last.provider
                  /\ res.status_code = last.status_code
                  /\ res.ok <=> last.status_code = 200

\* Three candidates: the first failed three times, the second answered 200
\* on the fourth dispatch, the third was never tried.
C12_Witness ==
    /\ ~is_streaming
    /\ Len(candidates) = 3
    /\ Len(dispatched) = 4
    /\ DispatchesTo(candidates[1]) = 3
    /\ DispatchesTo(candidates[2]) = 1
    /\ DispatchesTo(candidates[3]) = 0
    /\ \E res \in retry_result : res.ok /\ res.provider_name = candidates[2]

\* ---- C13 ----------------------------------------------------------------
\* C13: once retry_with_fallback has returned, the attempt list is exactly the
\* failed dispatches, in dispatch order, with the provider and the status of
\* each, and holds nothing for a successful dispatch.
C13_AttemptsAreFailures ==
    (~is_streaming /\ retry_result # None) =>
        /\ attempts = FailedRecords(dispatched)
        /\ Len(attempts) =
              Cardinality({i \in 1..Len(dispatched) :
                              dispatched[i].status_code # 200})

\* Four failures were recorded: three of the primary, then the fallback's.
C13_Witness ==
    /\ ~is_streaming
    /\ retry_result # None
    /\ Len(attempts) = 4
    /\ attempts[3].provider_name = candidates[1]
    /\ attempts[4].provider_name = candidates[2]
    /\ attempts[4].status_code = 400

\* ---- C14 ----------------------------------------------------------------
\* C14: a failure with a status outside {500, 502, 503, 504} is recorded once
\* and ends the call with that error: no primary retry follows and the
\* second candidate is not tried (after a first-dispatch failure of this kind
\* the list holds exactly one record and there was exactly one dispatch).
C14_NonRetryableIsFinal ==
    [][/\ \A o \in UpstreamOutcomes :
            (/\ UpstreamResponds(o)
             /\ ~is_streaming
             /\ o.kind = "http"
             /\ o.status \in {400, 429, 501}) =>
               /\ attempts' = Append(attempts, [provider_name |-> Target,
                                                status_code |-> o.status])
               /\ rpc' = "returned"
               /\ retry_result' = Some([ok |-> FALSE,
                                        provider_name |-> Target,
                                        status_code |-> o.status])
               /\ Len(dispatched) = 1 => Len(attempts') = 1
       /\ (~is_streaming /\ rpc \in {"returned", "responded"}) =>
               dispatched' = dispatched]_vars

\* The first dispatch met a 501 and the call returned it, a second candidate
\* being available.
C14_Witness ==
    /\ ~is_streaming
    /\ Len(candidates) >= 2
    /\ rpc = "responded"
    /\ Len(dispatched) = 1
    /\ dispatched[1].status_code = 501
    /\ Len(attempts) = 1
    /\ \E res \in retry_result : ~res.ok /\ res.status_code = 501

\* ---- C15 ----------------------------------------------------------------
\* C15 (as stated): a connect or read failure ends the retry sequence: the
\* primary is not retried and the fallback is not tried.
C15_ConnectFailureTerminal ==
    [][(/\ UpstreamResponds([kind |-> "connect_error", status |-> 0])
        /\ ~is_streaming) => rpc' = "returned"]_vars

\* C15 (amended): a connect or read failure is recorded with status 502 and
\* treated like an upstream 502: the primary is retried after the backoff
\* until it has been tried 3 times, then the fallback is tried once; it ends
\* the sequence only when it is the third primary failure with no second
\* candidate or the fallback's failure.
C15_ConnectFailureRetried ==
    [][(/\ UpstreamResponds([kind |-> "connect_error", status |-> 0])
        /\ ~is_streaming) =>
           /\ attempts' = Append(attempts, [provider_name |-> Target,
                                            status_code |-> 502])
           /\ (retry.target = "primary" /\ retry.attempt < 2) =>
                 (rpc' = "sleeping" /\ retry'.target = "primary")
           /\ (retry.target = "primary" /\ retry.attempt = 2
                 /\ Len(candidates) >= 2) =>
                 (rpc' = "ready" /\ retry'.target = "fallback")
           /\ (rpc' = "returned") <=>
                 \/ retry.target = "fallback"
                 \/ retry.attempt = 2 /\ Len(candidates) = 1]_vars

\* The primary could not be reached three times and the fallback answered.
C15_Witness ==
    /\ ~is_streaming
    /\ Len(dispatched) = 4
    /\ \A i \in 1..3 : dispatched[i].kind = "connect_error"
    /\ dispatched[4].provider = candidates[2]
    /\ dispatched[4].status_code = 200
    /\ Len(attempts) = 3

\* ---- C16 ----------------------------------------------------------------
\* C16: the first primary attempt starts with the call, the second 1 s after
\* the first failed, the third 2 s after the second failed, and the fallback
\* attempt at the instant the third failed; three primary attempts that fail
\* at once end 3 s after the start.
C16_BackoffSchedule ==
    ~is_streaming =>
        /\ \A i \in 1..Len(dispatched) :
              /\ i = 1 => dispatched[i].start + RETRY_TIMEOUT = deadline
              /\ i = 2 => dispatched[i].start = dispatched[1].end + 1
              /\ i = 3 => dispatched[i].start = dispatched[2].end + 2
              /\ i = 4 => dispatched[i].start = dispatched[3].end
        /\ (/\ Len(dispatched) >= 3
            /\ dispatched[3].kind # "pending"
            /\ \A i \in 1..3 : dispatched[i].end = dispatched[i].start) =>
              dispatched[3].end = dispatched[1].start + 3

\* Three primary attempts failed at once and the call returned 3 s after it
\* began.
C16_Witness ==
    /\ ~is_streaming
    /\ Len(candidates) = 1
    /\ rpc = "returned"
    /\ Len(dispatched) = 3
    /\ \A i \in 1..3 : dispatched[i].end = dispatched[i].start
    /\ now = 3

C18_StreamingSingleDispatch ==
    is_streaming =>
        /\ Len(dispatched) <= 1
        /\ \A i \in 1..Len(dispatched) :
              /\ dispatched[i].provider = candidates[1]
              /\ dispatched[i].kind # "pending" =>
                    (rpc \in {"returned", "responded"}
                       /\ retry_result # None)

\* A streaming request met a 503 on its only dispatch and was answered with
\* an error although other candidates existed.
C18_Witness ==
    /\ is_streaming
    /\ Len(candidates) >= 2
    /\ rpc = "responded"
    /\ Len(dispatched) = 1
    /\ dispatched[1].status_code = 503
    /\ \E r \in response : r.status = 502

\* ---- what the permit check must answer, read from the breaker -------------

\* The breaker b is Open at instant t and its timeout has not run out.
HoldsOpen(b, t) ==
    /\ b.state = "Open"
    /\ \A oa \in b.opened_at : t - oa < OPEN_DURATION

\* The members of the sequence s.
Members(s) == {s[i] : i \in 1..Len(s)}

\* ---- C19 ----------------------------------------------------------------
\* C19: for every request, streaming or not, the first dispatch to a
\* candidate happens only if its breaker grants a permit (it is not Open
\* within its timeout), the first dispatch of the request goes to the
\* cheapest such candidate, and when every candidate's breaker is Open the
\* request is answered 503 with a message naming open circuits and nothing
\* is dispatched.
C19_DispatchOnlyWithPermit ==
    /\ [][Len(dispatched') > Len(dispatched) =>
            LET p == dispatched'[Len(dispatched')].provider
            IN  /\ DispatchesTo(p) = 0 => ~HoldsOpen(breakers[p], now)
                /\ dispatched = <<>> =>
                      \A q \in Members(candidates) :
                          q < p => HoldsOpen(breakers[q], now)]_vars
    /\ [][(/\ rpc = "start"
           /\ rpc' # "start"
           /\ candidates # <<>>
           /\ \A p \in Members(candidates) : HoldsOpen(breakers[p], now)) =>
            /\ rpc' = "responded"
            /\ \E r \in response' :
                  /\ r.status = 503
                  /\ r.message = "All providers have open circuits"]_vars
    /\ []((\E r \in response : r.status = 503 /\ r.provider = None) =>
             dispatched = <<>>)

\* ---- C20 ----------------------------------------------------------------

\* This step is the arrival of the answer to the dispatch in flight.
AnswerArrives ==
    /\ rpc = "inflight"
    /\ rpc' # "inflight"
    /\ Len(dispatched') = Len(dispatched)

\* The dispatch answered by this step.
Answered == dispatched'[Len(dispatched)]

\* The answer is an upstream 4xx.
Answered4xx ==
    /\ Answered.kind = "http"
    /\ Answered.status_code >= 400
    /\ Answered.status_code < 500

\* The answer is an upstream 5xx or a connect/read failure.
AnsweredFailure ==
    \/ Answered.kind = "connect_error"
    \/ Answered.kind = "http" /\ Answered.status_code >= 500

\* The answer is an upstream 2xx.
Answered2xx ==
    /\ Answered.kind = "http"
    /\ Answered.status_code >= 200
    /\ Answered.status_code < 300

\* The provider's breaker is as it was: same failure_count, same state.
BreakerUnchanged(p) ==
    /\ breakers'[p].failure_count = breakers[p].failure_count
    /\ breakers'[p].state = breakers[p].state

\* C20: an upstream 4xx leaves the provider's breaker unchanged; an
\* upstream 5xx or a connect/read failure is recorded as a breaker failure
\* (one more consecutive failure, or the probe's failure when the breaker is
\* HalfOpen); a 2xx to a dispatch made under a Normal permit, that is to a
\* Closed breaker, resets failure_count to 0.
C20_OutcomesRecorded ==
    [][AnswerArrives =>
        LET p == Answered.provider
        IN  /\ Answered4xx => BreakerUnchanged(p)
            /\ AnsweredFailure =>
                  IF breakers[p].state = "HalfOpen"
                  THEN /\ breakers'[p].state = "Open"
                       /\ breakers'[p].opened_at = Some(now)
                  ELSE breakers'[p].failure_count =
                          breakers[p].failure_count + 1
            /\ (Answered2xx /\ breakers[p].state = "Closed") =>
                  breakers'[p].failure_count = 0]_vars

\* ---- C21 ----------------------------------------------------------------
\* C21: GET /health answers ok with 200 iff every registered breaker is
\* Closed (also with none registered), unhealthy with 503 iff there is at
\* least one breaker and all are Open, degraded with 200 otherwise, and
\* lists each provider with its current state and failure_count.
C21_HealthReflectsBreakers ==
    [][GetHealth =>
        \A r \in health_response' :
            /\ (r.status = "ok" /\ r.http = 200) <=>
                  \A p \in Registered : breakers[p].state = "Closed"
            /\ (r.status = "unhealthy" /\ r.http = 503) <=>
                  /\ Registered # {}
                  /\ \A p \in Registered : breakers[p].state = "Open"
            /\ r.status \in {"ok", "unhealthy"}
                  \/ (r.status = "degraded" /\ r.http = 200)
            /\ "providers" \in DOMAIN r
            /\ r.providers =
                 [p \in Registered |->
                    [state |-> as_str(breakers[p].state),
                     failure_count |-> breakers[p].failure_count]]]_vars

\* ---- results of the observer, as the claims below read them --------------

\* The observer after the bytes have been fed to it one at a time.
RECURSIVE feed_each(_, _)
feed_each(o, bytes) ==
    IF bytes = <<>>
    THEN o
    ELSE feed_each(process_chunk(o, <<Head(bytes)>>), Tail(bytes))

\* The upstream has sent everything and the wrapper has been dropped.
SseFinished ==
    /\ sse_phase = "dropped"
    /\ sse_pos = Len(sse_source)

\* ---- C22 ----------------------------------------------------------------
\* C22 as stated: however the byte sequence is cut into chunks, feeding them
\* in order and finishing gives the result that feeding it as one chunk
\* gives, so that any two ways of cutting agree.
C22_AnyCutSameResult ==
    SseFinished =>
        handle = Some(drop_result(process_chunk(SseObserver_with_handle,
                                                sse_source)))

\* C22 amended: however the byte sequence is cut into chunks, if the buffer
\* never exceeds BUFFER_CAP on the way, feeding the chunks in order and
\* finishing gives the result that feeding it byte by byte gives, so that
\* any two such ways of cutting agree; a data line cut anywhere, also inside
\* a JSON string or between CR and LF, is reassembled.
C22_AnyCutSameResultUnderCap ==
    (SseFinished /\ ~discarded) =>
        handle = Some(drop_result(feed_each(SseObserver_with_handle,
                                            sse_source)))

\* A stream that ends with a CRLF-terminated usage line after [DONE] was cut
\* between the CR and the LF, and the result has the usage.
C22_Witness ==
    /\ SseFinished
    /\ ~discarded
    /\ Len(sse_source) >= 2
    /\ sse_source[Len(sse_source) - 1] = "\r"
    /\ last_yield = Some([ok |-> TRUE, bytes |-> <<"\n">>])
    /\ \E r \in handle :
          /\ r.done_received
          /\ r.usage = Some([prompt_tokens |-> 6, completion_tokens |-> 10])

C24_NoDoneNoResult ==
    /\ [](\A r \in handle :
             ~r.done_received => (r.usage = None /\ r.finish_reason = None))
    /\ [][(sse_phase # "dropped" /\ sse_phase' = "dropped") =>
             (~flush_buffer(TheObserver).done_received =>
                 handle' = Some([usage |-> None,
                                 finish_reason |-> None,
                                 done_received |-> FALSE]))]_vars

\* The stream ended without [DONE] after a usage line and a finish_reason
\* line had been read, and the result is empty.
C24_Witness ==
    /\ SseFinished
    /\ ~discarded
    /\ feed_each(SseObserver_with_handle, sse_source).usage # None
    /\ feed_each(SseObserver_with_handle, sse_source).finish_reason # None
    /\ handle = Some([usage |-> None,
                      finish_reason |-> None,
                      done_received |-> FALSE])

\* ---- C25 ----------------------------------------------------------------
\* C25: when a chunk arrives, the observer does what line processing of the
\* buffer with the chunk appended does, except when that buffer exceeds
\* BUFFER_CAP and holds no newline, in which case it is cleared: a buffer
\* that holds a complete line is never thrown away.
C25_ValveOnlyWithoutNewline ==
    [][sse_pos' # sse_pos =>
        LET o == TheObserver
            buf == o.buffer \o SubSeq(sse_source, sse_pos + 1, sse_pos')
        IN  IF buffer_len(buf) > BUFFER_CAP /\ newline_pos(buf) = 0
            THEN observer' = Some([o EXCEPT !.buffer = <<>>])
            ELSE observer' = Some(process_lines([o EXCEPT !.buffer = buf]))]_vars

Listed == {c \in routed : c.method = "select_candidates" /\ c.result.ok}

\* A configured entry passes the filters of call c: it lists the requested
\* model or lists no model, and its output_rate is within the ceiling of the
\* policy the request is matched to, if there is one with a ceiling.
Passes(p, c) ==
    /\ p.models = <<>> \/ c.model \in elements(p.models)
    /\ \A pol \in c.policy :
          \A ceiling \in pol.max_sats_per_1k_output : p.output_rate <= ceiling

\* The configured entries a returned candidate can have come from: those of
\* its name, rate and fee that pass the filters.
Origins(v, c) ==
    {k \in 1..Len(providers) :
        /\ providers[k].name = v.name
        /\ providers[k].output_rate = v.output_rate
        /\ providers[k].base_fee = v.base_fee
        /\ Passes(providers[k], c)}

\* What C27 says of a returned list short of which entry of a name is kept:
\* non-empty, sorted by cost, equal costs in configuration order, no name
\* twice.
OrderedCheapestFirst(c) ==
    LET v == c.result.value
    IN  /\ v # <<>>
        /\ \A i, j \in 1..Len(v) :
              i < j =>
                 /\ v[i].output_rate + v[i].base_fee
                       <= v[j].output_rate + v[j].base_fee
                 /\ v[i].name # v[j].name
                 /\ Origins(v[i], c) # {} /\ Origins(v[j], c) # {}
                 /\ v[i].output_rate + v[i].base_fee
                       = v[j].output_rate + v[j].base_fee
                    => first_index(Origins(v[i], c))
                          < first_index(Origins(v[j], c))

\* select returns the first element of what select_candidates returns for
\* the same arguments, and its error if it fails.
SelectReturnsFirst ==
    \A c \in routed :
       c.method = "select" =>
          LET all == select_candidates(providers, policy_rules, c.model,
                                       c.policy_name, user_prompt(c.messages))
          IN  IF all.ok
              THEN c.result.ok /\ c.result.value = all.value[1]
              ELSE c.result = all

\* ---- C27 ----------------------------------------------------------------
\* C27 as stated: a list select_candidates returns is non-empty, sorted
\* non-decreasing by output_rate + base_fee with equal-cost providers in
\* configuration order, and holds each provider name at most once, the kept
\* entry being the cheapest of all configured entries of that name; select
\* returns its first element.
C27_CheapestConfiguredKept ==
    /\ \A c \in Listed :
          /\ OrderedCheapestFirst(c)
          /\ \A i \in 1..Len(c.result.value), k \in 1..Len(providers) :
                providers[k].name = c.result.value[i].name =>
                   c.result.value[i].output_rate + c.result.value[i].base_fee
                      <= providers[k].output_rate + providers[k].base_fee
    /\ SelectReturnsFirst

\* C27 amended: the same, the kept entry being the cheapest of the
\* configured entries of that name that pass the model and policy filters.
C27_CheapestPassingKept ==
    /\ \A c \in Listed :
          /\ OrderedCheapestFirst(c)
          /\ \A i \in 1..Len(c.result.value), k \in 1..Len(providers) :
                (/\ providers[k].name = c.result.value[i].name
                 /\ Passes(providers[k], c)) =>
                   c.result.value[i].output_rate + c.result.value[i].base_fee
                      <= providers[k].output_rate + providers[k].base_fee
    /\ SelectReturnsFirst

\* Two entries of one name pass the filters, the cheaper one configured
\* second: the list has that name once, with the cheaper entry.
C27_Witness ==
    \E c \in Listed :
       /\ Len(providers) = 2
       /\ providers[1].name = providers[2].name
       /\ Passes(providers[1], c) /\ Passes(providers[2], c)
       /\ providers[2].output_rate + providers[2].base_fee
             < providers[1].output_rate + providers[1].base_fee
       /\ c.result.value = <<SelectedProvider_from(providers[2])>>

\* ---- C28 ----------------------------------------------------------------
\* C28: select_candidates returns only providers that list the requested
\* model (or list no model) and, when a policy applies, whose output_rate is
\* within the policy's ceiling, and never an empty list.  It fails with
\* NoProviders when the model filter leaves nothing; failing that, with
\* BadRequest (model not allowed by policy) when the policy's non-empty
\* allow-list lacks the model; failing that, with NoPolicyMatch when the
\* ceiling leaves nothing.
C28_OnlyEligibleOrError ==
    \A c \in routed :
       c.method = "select_candidates" =>
          LET serving == {k \in 1..Len(providers) :
                             \/ providers[k].models = <<>>
                             \/ c.model \in elements(providers[k].models)}
              forbidden == \E pol \in c.policy :
                              /\ pol.allowed_models # <<>>
                              /\ c.model \notin elements(pol.allowed_models)
              within == {k \in serving : Passes(providers[k], c)}
          IN  /\ c.result.ok =>
                    /\ c.result.value # <<>>
                    /\ \A i \in 1..Len(c.result.value) :
                          Origins(c.result.value[i], c) # {}
              /\ serving = {} => c.result = Err(NoProviders(c.model))
              /\ (serving # {} /\ forbidden) =>
                    /\ ~c.result.ok
                    /\ c.result.error.kind = "BadRequest"
              /\ (serving # {} /\ ~forbidden /\ within = {}) =>
                    c.result = Err(NoPolicyMatch)

\* A policy with a ceiling applies, one configured provider serves the model
\* within the ceiling and one above it: only the first is returned.
C28_Witness ==
    \E c \in Listed :
       /\ Len(providers) = 2
       /\ \E pol \in c.policy : pol.max_sats_per_1k_output = Some(1)
       /\ providers[1].models = <<"m1">> /\ c.model = "m1"
       /\ providers[1].output_rate = 1 /\ providers[1].base_fee = 1
       /\ providers[2].models = <<>> /\ providers[2].output_rate = 2
       /\ providers[2].name # providers[1].name
       /\ c.result.value = <<SelectedProvider_from(providers[1])>>

\* ---- C29 ----------------------------------------------------------------

\* The rules of the name the x-arbstr-policy header gives.
NamedByHeader(c) ==
    {k \in 1..Len(policy_rules) :
        \E name \in c.policy_name : policy_rules[k].name = name}

\* The content of the request's last user message, if it has one.
LastUserContent(c) ==
    {c.messages[i].content :
        i \in {i \in 1..Len(c.messages) :
                  /\ c.messages[i].role = "user"
                  /\ \A j \in (i + 1)..Len(c.messages) :
                        c.messages[j].role # "user"}}

\* Two characters are the same letter in whatever case.
SameLetter(x, y) ==
    \/ x = y
    \/ {x, y} \in {{"a", "A"}, {"b", "B"}, {"c", "C"}}

\* kw occurs in text, case ignored.
OccursIn(kw, text) ==
    \E at \in 0..(Len(text) - Len(kw)) :
       \A i \in 1..Len(kw) : SameLetter(text[at + i], kw[i])

\* The rules one of whose keywords occurs, case ignored, in the last user
\* message.
MatchedByKeyword(c) ==
    {k \in 1..Len(policy_rules) :
        \E text \in LastUserContent(c) :
           \E n \in 1..Len(policy_rules[k].keywords) :
              OccursIn(policy_rules[k].keywords[n], text)}

\* C29 as stated: a request is matched to at most one policy: the policy
\* the x-arbstr-policy header names when the header is present (none when
\* no policy has that name), otherwise the first configured policy one of
\* whose keywords occurs case-insensitively in the last user message,
\* otherwise none.
C29_HeaderDecidesWhenPresent ==
    \A c \in routed :
       /\ Cardinality(c.policy) <= 1
       /\ c.policy =
            IF c.policy_name # None
            THEN IF NamedByHeader(c) # {}
                 THEN {policy_rules[first_index(NamedByHeader(c))]}
                 ELSE {}
            ELSE IF MatchedByKeyword(c) # {}
            THEN {policy_rules[first_index(MatchedByKeyword(c))]}
            ELSE {}

\* C29 amended: a request is matched to at most one policy: the first
\* configured policy of the name the x-arbstr-policy header gives when the
\* header is present and a policy has that name, otherwise the first
\* configured policy one of whose keywords occurs case-insensitively in the
\* last user message, otherwise none.
C29_HeaderDecidesWhenConfigured ==
    \A c \in routed :
       /\ Cardinality(c.policy) <= 1
       /\ c.policy =
            IF NamedByHeader(c) # {}
            THEN {policy_rules[first_index(NamedByHeader(c))]}
            ELSE IF MatchedByKeyword(c) # {}
            THEN {policy_rules[first_index(MatchedByKeyword(c))]}
            ELSE {}

\* The header names a policy nobody configured and a keyword of each of two
\* different rules occurs in the last user message, in another case: the
\* request is matched to the first of them.
C29_Witness ==
    \E c \in routed :
       /\ c.policy_name = Some("other")
       /\ Len(policy_rules) = 2
       /\ NamedByHeader(c) = {}
       /\ LastUserContent(c) = {<<"x", "a", "B">>}
       /\ policy_rules[2].keywords = << <<"A", "b">> >>
       /\ MatchedByKeyword(c) = {1, 2}
       /\ c.policy = {policy_rules[1]}
       /\ policy_rules[1] # policy_rules[2]

\* ---- C30 ----------------------------------------------------------------
\* C30: every response to POST /v1/chat/completions carries
\* x-arbstr-request-id equal to the correlation ID generated for the request,
\* whatever the outcome.
C30_RequestIdOnEveryResponse ==
    \A r \in http_response :
       /\ request_id # None
       /\ r.headers.request_id = request_id

\* ---- C31 ----------------------------------------------------------------

\* The sum of the counts of the items of a retries header.
RECURSIVE SumCounts(_)
SumCounts(h) == IF h = <<>> THEN 0 ELSE Head(h).count + SumCounts(Tail(h))

\* The position in the attempt list of the first attempt at provider p.
FirstAttemptAt(p) ==
    CHOOSE i \in 1..Len(attempts) :
       /\ attempts[i].provider_name = p
       /\ \A j \in 1..(i - 1) : attempts[j].provider_name # p

\* C31: the response to a non-streaming request carries x-arbstr-retries iff
\* at least one failed attempt was recorded; the value names each provider
\* once, in the order of the providers' first failed attempts, with the
\* number of its recorded attempts, and the counts sum to the number of
\* recorded attempts.
C31_RetriesHeaderCountsAttempts ==
    \A r \in response :
       ~is_streaming =>
          /\ (r.retries # None) <=> (attempts # <<>>)
          /\ \A h \in r.retries :
                /\ \A k, l \in 1..Len(h) : k # l => h[k].name # h[l].name
                /\ \A k \in 1..Len(h) :
                      /\ h[k].count >= 1
                      /\ h[k].count =
                           Cardinality({i \in 1..Len(attempts) :
                              attempts[i].provider_name = h[k].name})
                /\ \A k, l \in 1..Len(h) :
                      k < l =>
                         FirstAttemptAt(h[k].name) < FirstAttemptAt(h[l].name)
                /\ SumCounts(h) = Len(attempts)

\* The primary failed three times and the fallback once: the final error
\* carries "3/<primary>, 1/<fallback>".
C31_Witness ==
    /\ ~is_streaming
    /\ Len(attempts) = 4
    /\ \E r \in response :
          /\ r.status = 502
          /\ r.retries = Some(<<[count |-> 3, name |-> candidates[1]],
                                [count |-> 1, name |-> candidates[2]]>>)

\* ---- C32 ----------------------------------------------------------------
\* C32: every upstream dispatch made for one client request, retries and
\* fallback included, carries the same Idempotency-Key, equal to the
\* request's correlation ID, which is the value the response returns in
\* x-arbstr-request-id.
C32_SameIdempotencyKey ==
    /\ \A i \in 1..Len(dispatched) :
          /\ dispatched[i].headers.idempotency_key # None
          /\ dispatched[i].headers.idempotency_key = correlation_id
          /\ dispatched[i].headers.idempotency_key
                = dispatched[1].headers.idempotency_key
    /\ \A r \in http_response :
          \A i \in 1..Len(dispatched) :
             dispatched[i].headers.idempotency_key = r.headers.request_id

\* Three dispatches to the primary and one to the fallback, and the response
\* has left with the id all four carried.
C32_Witness ==
    /\ Len(dispatched) = 4
    /\ dispatched[3].provider = candidates[1]
    /\ dispatched[4].provider = candidates[2]
    /\ \E r \in http_response :
          /\ r.headers.request_id # None
          /\ r.headers.request_id = dispatched[4].headers.idempotency_key

\* ---- C33 ----------------------------------------------------------------
\* C33: ensure_stream_options sets stream_options.include_usage to true
\* exactly when the client left it unset, leaves a true or false of the
\* client unchanged and is idempotent; it is applied to the upstream body of
\* streaming requests only: the body of a non-streaming dispatch is the
\* client's, and gains no stream_options.
C33_InjectUsageWhenUnset ==
    \A req \in http_request :
       LET after == ensure_stream_options(req)
           unset == \/ req.stream_options = None
                    \/ req.stream_options = Some([include_usage |-> None])
       IN  /\ \A o \in after.stream_options :
                 IF unset
                 THEN o.include_usage = Some(TRUE)
                 ELSE \E c \in req.stream_options :
                         o.include_usage = c.include_usage
           /\ after.stream_options # None
           /\ ~unset => after = req
           /\ unset => after # req
           /\ [after EXCEPT !.stream_options = req.stream_options] = req
           /\ ensure_stream_options(after) = after
           /\ \A i \in 1..Len(dispatched) :
                 /\ is_streaming => dispatched[i].body = Some(after)
                 /\ ~is_streaming =>
                       /\ dispatched[i].body = Some(req)
                       /\ \A b \in dispatched[i].body :
                             req.stream_options = None
                                => b.stream_options = None

\* A streaming request whose client set include_usage to false was
\* dispatched with include_usage false.
C33_Witness ==
    /\ is_streaming
    /\ Len(dispatched) = 1
    /\ \E req \in http_request :
          /\ req.stream_options = Some([include_usage |-> Some(FALSE)])
          /\ \E b \in dispatched[1].body :
                b.stream_options = Some([include_usage |-> Some(FALSE)])

\* ---- C35 ----------------------------------------------------------------
\* C35: every request-log row the handler writes with success = false has
\* error_status or error_message set, on every failure path (routing error,
\* upstream error, exhausted retries, deadline expiry; streaming or not);
\* and every response that is not a success is logged with success = false.
C35_FailureRowHasError ==
    /\ \A row \in log_entry :
          ~row.success =>
             row.error_status # None \/ row.error_message # None
    /\ \A r \in response :
          /\ log_entry # None
          /\ \A row \in log_entry : row.success <=> r.status = 200

\* The deadline expired after two recorded failures: the row has
\* success = false, status 504 and the timeout message.
C35_Witness ==
    /\ Len(attempts) = 2
    /\ \E r \in response : r.status = 504
    /\ \E row \in log_entry :
          /\ ~row.success
          /\ row.error_status = Some(504)
          /\ row.error_message # None
          /\ row.provider = Some(attempts[2].provider_name)

\* ---- C34 ----------------------------------------------------------------
\* C34: the actual cost of a request equals
\* (input_tokens * input_rate + output_tokens * output_rate) / 1000 + base_fee
\* with the fraction kept: 10 input and 5 output tokens at rates 5 and 15
\* with no base fee cost 0.125 and not 0.
C34_CostKeepsFraction ==
    \A c \in cost_call :
       \A cost \in c.cost :
          /\ cost.den # 0
          /\ cost.num * 1000
               = (c.input_tokens * c.input_rate
                    + c.output_tokens * c.output_rate
                    + 1000 * c.base_fee) * cost.den
          /\ (/\ c.input_tokens = 10 /\ c.output_tokens = 5
              /\ c.input_rate = 5 /\ c.output_rate = 15 /\ c.base_fee = 0)
             => /\ cost.num * 8 = cost.den
                /\ cost.num # 0

\* The cost of 10 input and 5 output tokens at rates 5 and 15 without base
\* fee has been computed and is one eighth of a sat.
C34_Witness ==
    \E c \in cost_call :
       /\ c.input_tokens = 10 /\ c.output_tokens = 5
       /\ c.input_rate = 5 /\ c.output_rate = 15 /\ c.base_fee = 0
       /\ \E cost \in c.cost : cost.num * 8 = cost.den /\ cost.num > 0

\* ---- C36 ----------------------------------------------------------------
\* Both detached tasks of a request have run.
BothWritesDone ==
    /\ \E t \in log_tasks["insert"] : t.state = "done"
    /\ \E t \in log_tasks["update"] : t.state = "done"

\* The update task was given the correlation id of the inserted row.
UpdateOfInsertedRow ==
    \E i \in log_tasks["insert"] : \E u \in log_tasks["update"] :
       u.args.correlation_id = i.args.correlation_id

\* Once both tasks of a streaming request have run, the update has affected
\* exactly one row and the request's row holds the figures of the update.
C36_UpdateReachesInsertedRow ==
    (BothWritesDone /\ UpdateOfInsertedRow)
    => /\ rows_affected = Some(1)
       /\ \A u \in log_tasks["update"] :
             \E k \in DOMAIN requests_table :
                /\ requests_table[k].correlation_id = u.args.correlation_id
                /\ requests_table[k] = updated_row(requests_table[k], u.args)

\* An update for a correlation id with no row got rows_affected() = 0.
C36_NoRowZeroAffected ==
    \A u \in log_tasks["update"] :
       (/\ u.state = "done"
        /\ ~UpdateOfInsertedRow)
       => rows_affected = Some(0)

\* An update leaves every row of another correlation id, and the number of
\* rows, as they were.
C36_OtherRowsUntouched ==
    [][\A u \in log_tasks["update"] :
          (u.state = "spawned" /\ log_tasks'["update"] # log_tasks["update"])
          => /\ Len(requests_table') = Len(requests_table)
             /\ \A k \in DOMAIN requests_table :
                   requests_table[k].correlation_id # u.args.correlation_id
                   => requests_table'[k] = requests_table[k]]_vars

\* C36: for a streaming request the row inserted at dispatch time is the row
\* updated at stream end: the update is applied after the insert and affects
\* exactly one row under every scheduling of the two detached tasks; an
\* update for a correlation id with no row affects zero rows and changes
\* nothing.
C36_UpdateAfterInsert ==
    /\ [](C36_UpdateReachesInsertedRow /\ C36_NoRowZeroAffected)
    /\ C36_OtherRowsUntouched

\* ---- C37 ----------------------------------------------------------------
\* The step takes the breaker from Closed to Open.
ClosedToOpen == inner.state = "Closed" /\ inner'.state = "Open"

\* C37: the cumulative trip count increases by exactly one on each
\* Closed -> Open transition and on no other event: a probe failure
\* (HalfOpen -> Open), a probe success, a recorded success and a rejected
\* permit check leave it unchanged.
C37_TripCountCountsTrips ==
    [][/\ ClosedToOpen => inner'.trip_count = inner.trip_count + 1
       /\ ~ClosedToOpen => inner'.trip_count = inner.trip_count]_vars

\* ---- C38 ----------------------------------------------------------------
\* The step is a recording by the holder of a Normal permit.
NormalRecording ==
    \E c \in Callers :
       \/ NormalSuccess(c)
       \/ \E e \in FailureErrors : NormalFailure(c, e)

\* The step is a failed or dropped probe.
ProbeFailed ==
    \E c \in Callers :
       \/ \E e \in ProbeErrors : ProbeFailure(c, e)
       \/ ProbeDrop(c)

\* C38: the state changes only by the listed transitions: Closed -> Open on
\* the third consecutive failure, Open -> HalfOpen on a permit check after
\* the timeout, HalfOpen -> Closed on probe success, HalfOpen -> Open on
\* probe failure; never Open -> Closed or Closed -> HalfOpen directly; a
\* success or failure recorded for a Normal permit while the breaker is Open
\* or HalfOpen does not change the state.
C38_OnlyListedTransitions ==
    [][/\ inner'.state # inner.state =>
            \/ /\ ClosedToOpen
               /\ \E c \in Callers, e \in FailureErrors : NormalFailure(c, e)
               /\ inner'.failure_count = FAILURE_THRESHOLD
            \/ /\ inner.state = "Open" /\ inner'.state = "HalfOpen"
               /\ \E c \in Callers : AcquirePermit(c)
               /\ \E oa \in inner.opened_at : now - oa >= OPEN_DURATION
            \/ /\ inner.state = "HalfOpen" /\ inner'.state = "Closed"
               /\ \E c \in Callers : ProbeSuccess(c)
            \/ /\ inner.state = "HalfOpen" /\ inner'.state = "Open"
               /\ ProbeFailed
       /\ (NormalRecording /\ inner.state \in {"Open", "HalfOpen"})
            => inner'.state = inner.state]_vars

\* ---- C39 ----------------------------------------------------------------
\* C39: every caller suspended in acquire_permit waiting for a probe outcome
\* eventually returns, provided the Probe holder eventually resolves or drops
\* its guard: no wake-up is lost.
C39_WaiterEventuallyReturns ==
    \A c \in Callers : (pc[c] = "waiting") ~> (pc[c] # "waiting")

\* A suspended caller has been woken by the failure the probe holder
\* recorded: the holder is gone, the breaker is Open again and the caller's
\* receiver has an unseen Failed.
C39_Witness ==
    \E c \in Callers :
       /\ pc[c] = "waiting"
       /\ rx[c] = "changed"
       /\ probe_watch = "Failed"
       /\ inner.state = "Open"
       /\ \A h \in Callers : pc[h] # "probe"

====
